---- MODULE Spec2Model ----
(***************************************************************************)
(* State-machine model of the ncat bridge: MessageDispatcher,              *)
(* PromptRunner, AgentManager / AgentConnection / AgentProcess and the     *)
(* PermissionBroker.  One action per handler step; a step runs from one    *)
(* suspension point (await) of the asyncio code to the next.               *)
(***************************************************************************)
EXTENDS Integers, Sequences, FiniteSets, TLC

\* ---------------------------------------------------------------- bounds
MaxTasks == 2      \* prompt handler tasks ever started
MaxConns == 2      \* AgentConnection objects ever created
MaxSessions == 2   \* session ids the agents ever hand out
MaxChunks == 2     \* session/update chunks per prompt
MaxPerms == 2      \* request_permission calls ever made
MaxMsgs == 3       \* inbound chat messages ever handled

\* ------------------------------------------------------- program constants
ThinkingNotifySeconds == 10
ThinkingLongNotifySeconds == 30
PermissionTimeout == 300

\* ---------------------------------------------------------------- values
Chats == {"private:111", "group:222"}

IsGroupNever(c) == FALSE

IsGroup(c) == c = "group:222"

TaskIds == 1..MaxTasks
ConnIds == 1..MaxConns
Sids == 1..MaxSessions
PermIds == 1..MaxPerms

ToolKinds == {"read", "edit"}

\* A permission option: optionId and kind, in the order sent by the agent.
Opt(id, kind) == [optionId |-> id, kind |-> kind]

OptLists ==
  { << Opt("o1", "allow_once"), Opt("o2", "allow_always") >>,
    << Opt("o4", "reject_always"), Opt("o3", "reject_once"), Opt("o1", "allow_once") >> }

\* A reply part (ContentPart): text or image.
TextPart(s) == [type |-> "text", text |-> s, image |-> ""]
ImagePart(b) == [type |-> "image", text |-> "", image |-> b]

ChunkSet == { TextPart("a"), TextPart(""), ImagePart("i") }

\* Message texts are sequences of tokens; a token is an indivisible piece
\* of text (a command word, a blank, a digit, a word).
Texts ==
  { << "hi" >>,
    << "/stop" >>,
    << "/new" >>,
    << "/new", " ", "dir" >>,
    << "/help" >>,
    << "/send" >>,
    << "/send", " ", "/new" >>,
    << "/send", "\t", "hi" >>,
    << "/bg" >> }

\* Texts a user may send while a permission request is shown.
ReplyTexts ==
  { << "1" >>, << "2" >>, << " ", "2", " " >>, << "3" >>, << "0" >>,
    << "-", "1" >>, << "9" >>, << "x" >>, << >> }

NoTask == 0
NoConn == 0
NoPerm == 0
NoSid == 0
NoCwd == "<unset>"

\* -------------------------------------------------------------- variables
VARIABLES
  activeTasks,     \* PromptRunner._active_tasks: chat -> task id
  tasks,           \* handler tasks running PromptRunner.process
  connections,     \* AgentManager._connections: chat -> connection object
  conns,           \* the AgentConnection objects
  lockHolder,      \* AgentManager._connection_locks: chat -> holder
  nextSessionCwd,  \* AgentManager._next_session_cwd
  cancelTasks,     \* AgentManager.cancel coroutines spawned by /stop, not yet run
  always,          \* PermissionBroker._always: session -> tool kind -> option
  pending,         \* PermissionBroker._pending: chat -> request
  perms,           \* PermissionBroker.handle invocations
  cfg,             \* configuration: PermissionBroker._timeout, and the limits of the run
  replies,         \* the message the latest step sent to a chat, if it sent one
  agentLog,        \* what the agents received: session/new cwds and prompt count per chat, cancels per session
  nextSid,         \* next session id an agent hands out
  counts,          \* inbound messages handled so far; the transport peer and the disconnect-all loop
  lastTry,         \* the try_resolve call of the latest step and what it returned
  closed           \* history: session ids whose session was closed or replaced

vars == << activeTasks, tasks, connections, conns, lockHolder, nextSessionCwd,
           cancelTasks, always, pending, perms, cfg, replies, agentLog,
           nextSid, counts, lastTry, closed >>

\* ------------------------------------------------------------ text helpers
IsSpace(tok) == tok \in {" ", "\t"}

IsDigit(tok) == tok \in {"0", "1", "2", "3", "9"}

DigitVal(tok) ==
  CASE tok = "0" -> 0 [] tok = "1" -> 1 [] tok = "2" -> 2
    [] tok = "3" -> 3 [] tok = "9" -> 9 [] OTHER -> 0

RECURSIVE LStripSpace(_)
\* str.lstrip(): leading whitespace removed.
LStripSpace(text) ==
  IF text # << >> /\ IsSpace(Head(text)) THEN LStripSpace(Tail(text)) ELSE text

RECURSIVE LStripBlank(_)
\* str.lstrip(" "): leading blanks removed (a tab stays).
LStripBlank(text) ==
  IF text # << >> /\ Head(text) = " " THEN LStripBlank(Tail(text)) ELSE text

RECURSIVE RStripSpace(_)
RStripSpace(text) ==
  IF text # << >> /\ IsSpace(text[Len(text)])
  THEN RStripSpace(SubSeq(text, 1, Len(text) - 1))
  ELSE text

\* str.strip(): whitespace removed at both ends.
Strip(text) == RStripSpace(LStripSpace(text))

RECURSIVE DigitsVal(_)
DigitsVal(ds) ==
  IF ds = << >> THEN 0
  ELSE 10 * DigitsVal(SubSeq(ds, 1, Len(ds) - 1)) + DigitVal(ds[Len(ds)])

AllDigits(ds) == ds # << >> /\ \A i \in DOMAIN ds : IsDigit(ds[i])

\* int(text): [ok, val]; a sign followed by digits, or digits alone.
ParseInt(text) ==
  LET t == Strip(text) IN
  IF AllDigits(t) THEN [ok |-> TRUE, val |-> DigitsVal(t)]
  ELSE IF t # << >> /\ Head(t) \in {"-", "+"} /\ AllDigits(Tail(t))
       THEN [ok |-> TRUE,
             val |-> IF Head(t) = "-" THEN 0 - DigitsVal(Tail(t)) ELSE DigitsVal(Tail(t))]
       ELSE [ok |-> FALSE, val |-> 0]

\* ---------------------------------------------------- command patterns
\* ^/new(?:\s+(?P<dir>\S+))?$
MatchNew(text) ==
  IF text = << "/new" >> THEN [matched |-> TRUE, dir |-> NoCwd]
  ELSE IF Len(text) >= 3 /\ text[1] = "/new" /\ IsSpace(text[2])
       THEN LET d == LStripSpace(Tail(text)) IN
            IF d # << >> /\ \A i \in DOMAIN d : ~IsSpace(d[i])
            THEN [matched |-> TRUE, dir |-> d[1]]
            ELSE [matched |-> FALSE, dir |-> NoCwd]
       ELSE [matched |-> FALSE, dir |-> NoCwd]

\* ^/stop$
MatchStopNever(text) == FALSE

MatchStop(text) == text = << "/stop" >>

\* ^/send(?:\s+(?P<body>.*))?$
MatchSend(text) ==
  IF text = << "/send" >> THEN [matched |-> TRUE, body |-> << >>]
  ELSE IF Len(text) >= 2 /\ text[1] = "/send" /\ IsSpace(text[2])
       THEN [matched |-> TRUE, body |-> LStripSpace(Tail(text))]
       ELSE [matched |-> FALSE, body |-> << >>]

\* ^/help$
MatchHelp(text) == text = << "/help" >>

\* CommandRegistry.execute: the first registered pattern that matches.
MatchCommand(text) ==
  IF MatchNew(text).matched THEN "new"
  ELSE IF MatchStop(text) THEN "stop"
  ELSE IF MatchSend(text).matched THEN "send"
  ELSE IF MatchHelp(text) THEN "help"
  ELSE "none"

\* Dispatcher step 3: [/send stripped?, usage hint?, text after stripping].
StripSend(text) ==
  IF Len(text) >= 1 /\ text[1] = "/send"
  THEN LET rest == Tail(text) IN
       IF rest = << >> \/ rest[1] = " "
       THEN LET body == LStripBlank(rest) IN
            IF body = << >>
            THEN [forwarded |-> FALSE, usage |-> TRUE, text |-> text]
            ELSE [forwarded |-> TRUE, usage |-> FALSE, text |-> body]
       ELSE [forwarded |-> FALSE, usage |-> FALSE, text |-> text]
  ELSE [forwarded |-> FALSE, usage |-> FALSE, text |-> text]

\* ------------------------------------------------- accumulators (a dict)
\* conn.accumulators is an insertion-ordered dict session_id -> parts,
\* kept here as a sequence of [sid, parts] entries.
AccHas(acc, s) == \E i \in DOMAIN acc : acc[i].sid = s

AccGet(acc, s) ==
  IF AccHas(acc, s)
  THEN acc[CHOOSE i \in DOMAIN acc : acc[i].sid = s].parts
  ELSE << >>

AccSet(acc, s, v) ==
  IF AccHas(acc, s)
  THEN [i \in DOMAIN acc |-> IF acc[i].sid = s THEN [sid |-> s, parts |-> v] ELSE acc[i]]
  ELSE Append(acc, [sid |-> s, parts |-> v])

AccPop(acc, s) == SelectSeq(acc, LAMBDA e : e.sid # s)

\* ------------------------------------------------------------- replies
R(kind) == [kind |-> kind, parts |-> << >>]

Content(parts) == [kind |-> "content", parts |-> parts]

\* reply_fn / reply_content_fn: one message goes out to the chat.
Say(c, r) == [chat |-> c, msg |-> r]

\* The step sends nothing.
Silent == [chat |-> "", msg |-> R("none")]

\* has_text or has_image of PromptRunner.process
Usable(parts) ==
  \E i \in DOMAIN parts :
    \/ parts[i].type = "text" /\ parts[i].text # ""
    \/ parts[i].type = "image" /\ parts[i].image # ""

\* ------------------------------------------------------------ the objects
NoOpt == Opt("", "")

FreeTask ==
  [chat |-> "", pc |-> "unused", conn |-> NoConn, sid |-> NoSid, text |-> << >>,
   cancelReq |-> FALSE, armed |-> FALSE, fired |-> 0,
   arrived |-> << >>, parts |-> << >>, stopped |-> FALSE]

FreeConn ==
  [chat |-> "", st |-> "unused", acc |-> << >>, active_prompt |-> FALSE,
   okSid |-> NoSid, sids |-> {}]

NoFuture == [st |-> "none", idx |-> 0]

NoOutcome == [kind |-> "none", optionId |-> ""]

FreePerm ==
  [chat |-> "", sid |-> NoSid, kind |-> "", opts |-> << >>, pc |-> "unused",
   fut |-> NoFuture, outcome |-> NoOutcome, via |-> ""]

NoTry == [chat |-> "", idx |-> 0, ret |-> FALSE, perm |-> NoPerm]

\* AgentProcess.is_running: process alive and the ACP link present.
IsRunningNever(st) == FALSE

IsRunning(st) == st \in {"handshake", "ready", "closing"}

\* The peer end of the link still answers requests.
LinkOpen(st) == st \in {"handshake", "ready", "closing"}

\* AgentProcess.conn is not None
HasLink(st) == st \in {"handshake", "ready", "closing"}

\* Task phases in which the handler task has not finished.
LivePcs ==
  {"spawning", "handshake", "newsession", "prompting",
   "reply", "partial", "errreply"}

Live(t) == tasks[t].pc \in LivePcs

\* The state after construction of dispatcher, runner, manager and broker.
InitWith(config) ==
  /\ activeTasks = [c \in Chats |-> NoTask]
  /\ tasks = [t \in TaskIds |-> FreeTask]
  /\ connections = [c \in Chats |-> NoConn]
  /\ conns = [k \in ConnIds |-> FreeConn]
  /\ lockHolder = [c \in Chats |-> NoTask]
  /\ nextSessionCwd = [c \in Chats |-> NoCwd]
  /\ cancelTasks = [c \in Chats |-> 0]
  /\ always = [s \in Sids |-> [k \in ToolKinds |-> NoOpt]]
  /\ pending = [c \in Chats |-> NoPerm]
  /\ perms = [r \in PermIds |-> FreePerm]
  /\ cfg = config
  /\ replies = Silent
  /\ agentLog = [news |-> [c \in Chats |-> << >>], prompts |-> [c \in Chats |-> 0],
                 cancels |-> [s \in Sids |-> 0]]
  /\ nextSid = 1
  /\ counts = [msgs |-> 0, peer |-> "open", todo |-> << >>]
  /\ lastTry = NoTry
  /\ closed = {}

\* A configuration: the broker's timeout and how many handler tasks,
\* permission requests, inbound messages and chunks per prompt a run may use.
Config(timeout, nTasks, nPerms, nMsgs, nChunks) ==
  [timeout |-> timeout, tasks |-> nTasks, perms |-> nPerms, msgs |-> nMsgs,
   chunks |-> nChunks]

Init == InitWith(Config(PermissionTimeout, MaxTasks, MaxPerms, MaxMsgs, MaxChunks))

\* --------------------------------------------------------- PromptRunner
\* is_busy that never reports an active task.
IsBusyNever(c) == FALSE

\* PromptRunner.is_busy
IsBusyAny(c) == \E a \in Chats : activeTasks[a] # NoTask

IsBusy(c) == activeTasks[c] # NoTask

\* ----------------------------------------------------------- dispatcher
StartsWithBg(text) == Len(text) >= 1 /\ text[1] = "/bg"

\* MessageDispatcher.handle_message, steps 1 to 5: where a message goes.
Route(c, text, atBot) ==
  IF IsGroup(c) /\ ~atBot THEN "drop"
  ELSE LET ss == StripSend(text) IN
       IF ss.usage THEN "usage"
       ELSE IF ~ss.forwarded /\ MatchCommand(text) # "none" THEN MatchCommand(text)
       ELSE IF ~ss.forwarded /\ StartsWithBg(text) THEN "bg"
       ELSE IF IsBusy(c) THEN "busy"
       ELSE "prompt"

\* Steps already in the event loop's ready queue: a cancelled handler task
\* that has not run its cleanup, a cancel coroutine that has not started.
Quiet ==
  /\ \A t \in TaskIds : ~(Live(t) /\ tasks[t].cancelReq)
  /\ \A c \in Chats : cancelTasks[c] = 0

\* A message in: the inputs of one handle_message call.  A new message is
\* read from the socket after the steps already in the ready queue have run.
Inbound(c, text, atBot) ==
  /\ counts.msgs < cfg.msgs
  /\ counts.peer = "open"
  /\ (atBot => IsGroup(c))
  /\ Quiet

Counted == [counts EXCEPT !.msgs = @ + 1]


runnerV == << activeTasks, tasks >>
managerV == << connections, conns, lockHolder, nextSessionCwd, cancelTasks >>
brokerV == << always, pending, perms, cfg >>

\* Step 2: a group message that does not mention the bot is ignored.
MsgDrop(c, text, atBot) ==
  /\ Inbound(c, text, atBot)
  /\ Route(c, text, atBot) = "drop"
  /\ counts' = Counted
  /\ replies' = Silent
  /\ lastTry' = NoTry
  /\ UNCHANGED << runnerV, managerV, brokerV, closed, agentLog, nextSid >>

\* Step 3: a bare /send gets the usage hint.
MsgUsage(c, text, atBot) ==
  /\ Inbound(c, text, atBot)
  /\ Route(c, text, atBot) = "usage"
  /\ replies' = Say(c, R("usage"))
  /\ counts' = Counted
  /\ lastTry' = NoTry
  /\ UNCHANGED << runnerV, managerV, brokerV, closed, agentLog, nextSid >>

\* handle_help
MsgHelp(c, text, atBot) ==
  /\ Inbound(c, text, atBot)
  /\ Route(c, text, atBot) = "help"
  /\ replies' = Say(c, R("help"))
  /\ counts' = Counted
  /\ lastTry' = NoTry
  /\ UNCHANGED << runnerV, managerV, brokerV, closed, agentLog, nextSid >>

\* handle_send: the body is echoed to the chat; an empty body does nothing.
MsgSend(c, text, atBot) ==
  /\ Inbound(c, text, atBot)
  /\ Route(c, text, atBot) = "send"
  /\ replies' = IF MatchSend(text).body = << >> THEN Silent ELSE Say(c, R("echo"))
  /\ counts' = Counted
  /\ lastTry' = NoTry
  /\ UNCHANGED << runnerV, managerV, brokerV, closed, agentLog, nextSid >>

\* Step 4b: /bg without a background-session handler.
MsgBg(c, text, atBot) ==
  /\ Inbound(c, text, atBot)
  /\ Route(c, text, atBot) = "bg"
  /\ replies' = Say(c, R("bg_disabled"))
  /\ counts' = Counted
  /\ lastTry' = NoTry
  /\ UNCHANGED << runnerV, managerV, brokerV, closed, agentLog, nextSid >>

\* Step 5: busy rejection.
MsgBusy(c, text, atBot) ==
  /\ Inbound(c, text, atBot)
  /\ Route(c, text, atBot) = "busy"
  /\ replies' = Say(c, R("busy"))
  /\ counts' = Counted
  /\ lastTry' = NoTry
  /\ UNCHANGED << runnerV, managerV, brokerV, closed, agentLog, nextSid >>

\* cancel_pending that pops the record and leaves its future alone.
CancelPendingKeepsFuture(c) ==
  [pend |-> [pending EXCEPT ![c] = NoPerm], perms |-> perms]

\* PermissionBroker.cancel_pending: the record is popped, its future is
\* cancelled unless it is done.
CancelPending(c) ==
  LET r == pending[c] IN
  [pend |-> [pending EXCEPT ![c] = NoPerm],
   perms |-> IF r # NoPerm /\ perms[r].fut.st = "pending"
             THEN [perms EXCEPT ![r].fut = [st |-> "cancelled", idx |-> 0]]
             ELSE perms]

\* handle_stop with PromptRunner.cancel: pending permission cancelled, the
\* task cancelled, the agent_manager.cancel coroutine scheduled.
MsgStop(c, text, atBot) ==
  /\ Inbound(c, text, atBot)
  /\ Route(c, text, atBot) = "stop"
  /\ LET t == activeTasks[c] IN
     IF t # NoTask
     THEN /\ pending' = CancelPending(c).pend
          /\ perms' = CancelPending(c).perms
          /\ tasks' = [tasks EXCEPT ![t].cancelReq = TRUE,
                                    ![t].stopped = (tasks[t].pc = "prompting")]
          /\ cancelTasks' = [cancelTasks EXCEPT ![c] = @ + 1]
          /\ replies' = Say(c, R("stopped"))
     ELSE /\ replies' = Say(c, R("no_active"))
          /\ UNCHANGED << pending, perms, tasks, cancelTasks >>
  /\ counts' = Counted
  /\ lastTry' = NoTry
  /\ UNCHANGED << activeTasks, connections, conns, lockHolder, nextSessionCwd, always,
                  cfg, closed, agentLog, nextSid >>

\* handle_new up to its first suspension: set_next_session_cwd,
\* close_session, disconnect (entry popped, AgentProcess.stop begun).  With no
\* link to close and no process to reap nothing suspends and the reply
\* follows at once.
MsgNew(c, text, atBot) ==
  /\ Inbound(c, text, atBot)
  /\ Route(c, text, atBot) = "new"
  /\ nextSessionCwd' = [nextSessionCwd EXCEPT ![c] = MatchNew(text).dir]
  /\ LET k == connections[c] IN
     IF k = NoConn
     THEN /\ replies' = Say(c, R("new_session"))
          /\ UNCHANGED << conns, closed >>
     ELSE /\ closed' = closed \cup conns[k].sids
          /\ IF HasLink(conns[k].st)
             THEN /\ conns' = [conns EXCEPT ![k].acc = << >>, ![k].okSid = NoSid,
                                            ![k].st = "closing"]
                  /\ replies' = Silent
             ELSE /\ conns' = [conns EXCEPT ![k].acc = << >>, ![k].okSid = NoSid,
                                            ![k].active_prompt = FALSE]
                  /\ replies' = Say(c, R("new_session"))
  /\ connections' = [connections EXCEPT ![c] = NoConn]
  /\ counts' = Counted
  /\ lastTry' = NoTry
  /\ UNCHANGED << runnerV, lockHolder, cancelTasks, brokerV, agentLog, nextSid >>

\* AgentProcess.stop: the link is closed, terminate() is sent.
StopClosed(k) ==
  /\ conns[k].st = "closing"
  /\ conns' = [conns EXCEPT ![k].st = "terminating"]
  /\ replies' = Silent
  /\ lastTry' = NoTry
  /\ UNCHANGED << runnerV, connections, lockHolder, nextSessionCwd, cancelTasks, brokerV,
                  closed, agentLog, nextSid, counts >>

\* AgentProcess.stop returns (process reaped); disconnect clears the
\* connection object and handle_new replies.
StopDone(k) ==
  /\ conns[k].st = "terminating"
  /\ conns' = [conns EXCEPT ![k].st = "stopped", ![k].acc = << >>,
                            ![k].active_prompt = FALSE]
  /\ replies' = Say(conns[k].chat, R("new_session"))
  /\ lastTry' = NoTry
  /\ UNCHANGED << runnerV, connections, lockHolder, nextSessionCwd, cancelTasks, brokerV,
                  closed, agentLog, nextSid, counts >>

\* ------------------------------------------------- the prompt handler task
FreshTask == CHOOSE t \in TaskIds :
  tasks[t].pc = "unused" /\ \A u \in TaskIds : u < t => tasks[u].pc # "unused"

FreshConn == CHOOSE k \in ConnIds :
  conns[k].st = "unused" /\ \A j \in ConnIds : j < k => conns[j].st # "unused"

CwdParamDefault(c) == ""

\* The cwd parameter of session/new: the one-time directory or the empty string.
CwdParam(c) == IF nextSessionCwd[c] = NoCwd THEN "" ELSE nextSessionCwd[c]

FailingSilently(T, t) == T

\* process()'s handlers for RuntimeError and Exception: the error message
\* is being sent, close_session follows.
Failing(T, t) == [T EXCEPT ![t].pc = "errreply"]

\* send_prompt from the return of ensure_connection to its next await:
\* is_running check, get_or_create_session, then either session/new or
\* session/prompt is sent.  T, C, M are tasks, conns and connections as the
\* step has changed them so far.
AfterEnsure(c, t, T, C, M) ==
  IF M[c] = NoConn \/ ~IsRunning(C[M[c]].st)
  THEN [tasks |-> Failing(T, t), conns |-> C, cwd |-> nextSessionCwd,
        log |-> agentLog, replies |-> Say(c, R("agent_error"))]
  ELSE LET k == M[c] IN
       IF C[k].acc # << >>
       THEN LET s == C[k].acc[1].sid IN
            [tasks |-> [T EXCEPT ![t].pc = "prompting", ![t].conn = k, ![t].sid = s],
             conns |-> [C EXCEPT ![k].acc = AccSet(@, s, << >>),
                                 ![k].active_prompt = TRUE],
             cwd |-> nextSessionCwd,
             log |-> [agentLog EXCEPT !.prompts[c] = @ + 1],
             replies |-> Silent]
       ELSE [tasks |-> [T EXCEPT ![t].pc = "newsession", ![t].conn = k],
             conns |-> C,
             cwd |-> [nextSessionCwd EXCEPT ![c] = NoCwd],
             log |-> [agentLog EXCEPT !.news[c] = Append(@, CwdParam(c))],
             replies |-> Silent]

\* Step 6 with PromptRunner.process up to its first suspension: the task
\* is registered, the timers start, ensure_connection either finds the
\* connection running or takes the per-chat lock and starts the agent.
MsgPrompt(c, text, atBot) ==
  /\ Inbound(c, text, atBot)
  /\ Route(c, text, atBot) = "prompt"
  /\ Cardinality({t \in TaskIds : tasks[t].pc # "unused"}) < cfg.tasks
  /\ connections[c] = NoConn => \E k \in ConnIds : conns[k].st = "unused"
  /\ LET t == FreshTask
         k == IF connections[c] = NoConn THEN FreshConn ELSE connections[c]
         M0 == [connections EXCEPT ![c] = k]
         C0 == IF connections[c] = NoConn
               THEN [conns EXCEPT ![k] = [FreeConn EXCEPT !.chat = c, !.st = "new"]]
               ELSE conns
         T0 == [tasks EXCEPT ![t] = [FreeTask EXCEPT !.chat = c, !.conn = k,
                                                    !.text = StripSend(text).text,
                                                    !.armed = TRUE]]
         running == IsRunning(C0[k].st)
         n == IF running
              THEN AfterEnsure(c, t, T0, C0, M0)
              ELSE [tasks |-> [T0 EXCEPT ![t].pc = "spawning"],
                    conns |-> [C0 EXCEPT ![k].st = "spawning"],
                    cwd |-> nextSessionCwd, log |-> agentLog, replies |-> Silent]
     IN /\ (~running => lockHolder[c] = NoTask)
        /\ activeTasks' = [activeTasks EXCEPT ![c] = t]
        /\ connections' = M0
        /\ lockHolder' = IF running THEN lockHolder ELSE [lockHolder EXCEPT ![c] = t]
        /\ tasks' = n.tasks
        /\ conns' = n.conns
        /\ nextSessionCwd' = n.cwd
        /\ agentLog' = n.log
        /\ replies' = n.replies
  /\ counts' = Counted
  /\ lastTry' = NoTry
  /\ UNCHANGED << cancelTasks, brokerV, closed, nextSid >>

\* start_once: the subprocess exists, the link is set, initialize is sent.
SpawnDone(t) ==
  /\ tasks[t].pc = "spawning" /\ ~tasks[t].cancelReq
  /\ conns[tasks[t].conn].st = "spawning"
  /\ conns' = [conns EXCEPT ![tasks[t].conn].st = "handshake"]
  /\ tasks' = [tasks EXCEPT ![t].pc = "handshake"]
  /\ replies' = Silent
  /\ lastTry' = NoTry
  /\ UNCHANGED << activeTasks, connections, lockHolder, nextSessionCwd, cancelTasks,
                  brokerV, closed, agentLog, nextSid, counts >>

\* start_once returns: the initialize response arrived, the lock is
\* released and send_prompt goes on.
InitDone(t) ==
  /\ tasks[t].pc = "handshake" /\ ~tasks[t].cancelReq
  /\ conns[tasks[t].conn].st \in {"handshake", "closing"}
  /\ LET c == tasks[t].chat
         k == tasks[t].conn
         C1 == [conns EXCEPT ![k].st = IF @ = "handshake" THEN "ready" ELSE @]
         n == AfterEnsure(c, t, tasks, C1, connections)
     IN /\ lockHolder' = [lockHolder EXCEPT ![c] = NoTask]
        /\ tasks' = n.tasks
        /\ conns' = n.conns
        /\ nextSessionCwd' = n.cwd
        /\ agentLog' = n.log
        /\ replies' = n.replies
  /\ lastTry' = NoTry
  /\ UNCHANGED << activeTasks, connections, cancelTasks, brokerV, closed, nextSid,
                  counts >>

\* start_once raises: the handshake failed or timed out, the link is torn
\* down, the lock is released and process() reports the error.
InitFail(t) ==
  /\ tasks[t].pc = "handshake" /\ ~tasks[t].cancelReq
  /\ LET c == tasks[t].chat
         k == tasks[t].conn
     IN /\ conns' = [conns EXCEPT ![k].st = IF @ = "handshake" THEN "stopped" ELSE @]
        /\ lockHolder' = [lockHolder EXCEPT ![c] = NoTask]
        /\ tasks' = Failing(tasks, t)
        /\ replies' = Say(c, R("agent_error"))
  /\ lastTry' = NoTry
  /\ UNCHANGED << activeTasks, connections, nextSessionCwd, cancelTasks, brokerV, closed,
                  agentLog, nextSid, counts >>

\* _create_session resumes with the session/new response; send_prompt
\* resets the accumulator, sets active_prompt and sends session/prompt.
NewSessionDone(t) ==
  /\ tasks[t].pc = "newsession" /\ ~tasks[t].cancelReq
  /\ LinkOpen(conns[tasks[t].conn].st)
  /\ nextSid <= MaxSessions
  /\ LET c == tasks[t].chat
         k == tasks[t].conn
         s == nextSid
     IN /\ conns' = [conns EXCEPT ![k].acc = AccSet(@, s, << >>),
                                  ![k].active_prompt = TRUE,
                                  ![k].sids = @ \cup {s}]
        /\ tasks' = [tasks EXCEPT ![t].pc = "prompting", ![t].sid = s]
        /\ agentLog' = [agentLog EXCEPT !.prompts[c] = @ + 1]
  /\ nextSid' = nextSid + 1
  /\ replies' = Silent
  /\ lastTry' = NoTry
  /\ UNCHANGED << activeTasks, connections, lockHolder, nextSessionCwd, cancelTasks,
                  brokerV, closed, counts >>

\* session/new fails (agent error or closed link): process() reports it.
NewSessionFail(t) ==
  /\ tasks[t].pc = "newsession" /\ ~tasks[t].cancelReq
  /\ tasks' = Failing(tasks, t)
  /\ replies' = Say(tasks[t].chat, R("agent_error"))
  /\ lastTry' = NoTry
  /\ UNCHANGED << activeTasks, managerV, brokerV, closed, agentLog, nextSid, counts >>

\* A permission request of this session has not been answered yet.
AwaitingPermission(s) ==
  \E r \in PermIds : perms[r].sid = s /\ perms[r].pc \in {"posting", "waiting", "timeoutmsg"}

\* accumulate_part that appends to the connection's first accumulator
\* whatever session the chunk names.
AccumulateAnySession(C, c, s, part) ==
  LET k == connections[c] IN
  IF k # NoConn /\ C[k].acc # << >>
  THEN [C EXCEPT ![k].acc = AccSet(@, @[1].sid, Append(@[1].parts, part))]
  ELSE C

\* accumulate_part: the entry is looked up through the connections map.
AccumulatePart(C, c, s, part) ==
  LET k == connections[c] IN
  IF k # NoConn /\ AccHas(C[k].acc, s)
  THEN [C EXCEPT ![k].acc = AccSet(@, s, Append(AccGet(@, s), part))]
  ELSE C

\* A session/update message chunk arrives while the prompt is outstanding.
AgentUpdate(t, part) ==
  /\ tasks[t].pc = "prompting"
  /\ LinkOpen(conns[tasks[t].conn].st)
  /\ Len(tasks[t].arrived) < cfg.chunks
  /\ conns' = AccumulatePart(conns, tasks[t].chat, tasks[t].sid, part)
  /\ tasks' = [tasks EXCEPT ![t].arrived = Append(@, part)]
  /\ replies' = Silent
  /\ lastTry' = NoTry
  /\ UNCHANGED << activeTasks, connections, lockHolder, nextSessionCwd, cancelTasks,
                  brokerV, closed, agentLog, nextSid, counts >>

\* A chunk the agent sends for a prompt that /stop has cancelled.
LatePart == TextPart("late")

\* A session/update message chunk of a cancelled prompt's session arrives:
\* the agent that holds the session is still connected.
LateUpdate(t) ==
  /\ tasks[t].cancelReq /\ tasks[t].sid # NoSid
  /\ tasks[t].pc \in {"prompting", "cancelled"}
  /\ \E j \in ConnIds : tasks[t].sid \in conns[j].sids /\ LinkOpen(conns[j].st)
  /\ \A k \in ConnIds : \A i \in DOMAIN conns[k].acc :
        Len(conns[k].acc[i].parts) < cfg.chunks
  /\ cfg.chunks > 0
  /\ conns' = AccumulatePart(conns, tasks[t].chat, tasks[t].sid, LatePart)
  /\ replies' = Silent
  /\ lastTry' = NoTry
  /\ UNCHANGED << runnerV, connections, lockHolder, nextSessionCwd, cancelTasks,
                  brokerV, closed, agentLog, nextSid, counts >>

\* A finally block that leaves the task registered.
UnregisterNever(c, t) == activeTasks

\* The finally block of process(): timers cancelled, the task removed from
\* _active_tasks if it is still the registered one.
Unregister(c, t) ==
  IF activeTasks[c] = t THEN [activeTasks EXCEPT ![c] = NoTask] ELSE activeTasks

\* A handler task that ends as done whatever ended it.
EndedDone(T, t, pc) ==
  [T EXCEPT ![t].pc = "done", ![t].armed = FALSE, ![t].arrived = << >>,
            ![t].parts = << >>, ![t].text = << >>, ![t].fired = 0, ![t].conn = NoConn]

\* The handler task has finished: its timers, buffers and connection
\* reference are gone.
Ended(T, t, pc) ==
  [T EXCEPT ![t].pc = pc, ![t].armed = FALSE, ![t].arrived = << >>, ![t].parts = << >>,
            ![t].text = << >>, ![t].fired = 0, ![t].conn = NoConn]

\* The session/prompt response arrives: send_prompt pops the accumulator and
\* returns it, process() cancels the timers and sends the reply.
PromptDone(t) ==
  /\ tasks[t].pc = "prompting" /\ ~tasks[t].cancelReq
  /\ LinkOpen(conns[tasks[t].conn].st)
  /\ ~AwaitingPermission(tasks[t].sid)
  /\ LET c == tasks[t].chat
         k == tasks[t].conn
         s == tasks[t].sid
         parts == AccGet(conns[k].acc, s)
     IN /\ conns' = [conns EXCEPT ![k].acc = AccPop(@, s), ![k].active_prompt = FALSE,
                                  ![k].okSid = s]
        /\ tasks' = [tasks EXCEPT ![t].pc = "reply", ![t].parts = parts, ![t].armed = FALSE]
        /\ replies' = Say(c, IF Usable(parts) THEN Content(parts) ELSE R("empty"))
  /\ lastTry' = NoTry
  /\ UNCHANGED << activeTasks, connections, lockHolder, nextSessionCwd, cancelTasks,
                  brokerV, closed, agentLog, nextSid, counts >>

\* session/prompt fails: AgentErrorWithPartialContent carries the popped
\* accumulator; usable partial content is sent first, else the error message.
PromptFail(t) ==
  /\ tasks[t].pc = "prompting" /\ ~tasks[t].cancelReq
  /\ LinkOpen(conns[tasks[t].conn].st) => ~AwaitingPermission(tasks[t].sid)
  /\ LET c == tasks[t].chat
         k == tasks[t].conn
         s == tasks[t].sid
         partial == AccGet(conns[k].acc, s)
     IN /\ conns' = [conns EXCEPT ![k].acc = AccPop(@, s), ![k].active_prompt = FALSE,
                                  ![k].okSid = NoSid]
        /\ IF partial # << >> /\ Usable(partial)
           THEN /\ tasks' = [tasks EXCEPT ![t].pc = "partial", ![t].parts = partial]
                /\ replies' = Say(c, Content(partial))
           ELSE /\ tasks' = [tasks EXCEPT ![t].pc = "errreply", ![t].parts = partial]
                /\ replies' = Say(c, R("agent_error"))
  /\ lastTry' = NoTry
  /\ UNCHANGED << activeTasks, connections, lockHolder, nextSessionCwd, cancelTasks,
                  brokerV, closed, agentLog, nextSid, counts >>

\* The partial content is out; the error message follows.
PartialSent(t) ==
  /\ tasks[t].pc = "partial" /\ ~tasks[t].cancelReq
  /\ tasks' = [tasks EXCEPT ![t].pc = "errreply"]
  /\ replies' = Say(tasks[t].chat, R("agent_error_partial"))
  /\ lastTry' = NoTry
  /\ UNCHANGED << activeTasks, managerV, brokerV, closed, agentLog, nextSid, counts >>

\* AgentManager.close_session: the accumulators of the mapped connection
\* are cleared.
CloseAllSessions(C, c) ==
  [k \in ConnIds |->
     IF \E b \in Chats : connections[b] = k
     THEN [C[k] EXCEPT !.acc = << >>, !.okSid = NoSid]
     ELSE C[k]]

CloseSessionStops(C, c) ==
  IF connections[c] # NoConn
  THEN [C EXCEPT ![connections[c]].acc = << >>, ![connections[c]].okSid = NoSid,
                 ![connections[c]].st = "stopped"]
  ELSE C

CloseSession(C, c) ==
  IF connections[c] # NoConn
  THEN [C EXCEPT ![connections[c]].acc = << >>, ![connections[c]].okSid = NoSid]
  ELSE C

\* The error message is out: close_session, then the finally block.
ErrSent(t) ==
  /\ tasks[t].pc = "errreply" /\ ~tasks[t].cancelReq
  /\ conns' = CloseSession(conns, tasks[t].chat)
  /\ closed' = IF tasks[t].sid # NoSid THEN closed \cup {tasks[t].sid} ELSE closed
  /\ tasks' = Ended(tasks, t, "done")
  /\ activeTasks' = Unregister(tasks[t].chat, t)
  /\ replies' = Silent
  /\ lastTry' = NoTry
  /\ UNCHANGED << connections, lockHolder, nextSessionCwd, cancelTasks, brokerV,
                  agentLog, nextSid, counts >>

\* The reply is out: the finally block.
ReplySent(t) ==
  /\ tasks[t].pc = "reply" /\ ~tasks[t].cancelReq
  /\ tasks' = Ended(tasks, t, "done")
  /\ activeTasks' = Unregister(tasks[t].chat, t)
  /\ replies' = Silent
  /\ lastTry' = NoTry
  /\ UNCHANGED << managerV, brokerV, closed, agentLog, nextSid, counts >>

\* CancelledError is raised at the await the task is suspended in:
\* ensure_connection leaves the lock, send_prompt pops the accumulator and
\* resets active_prompt, process() runs its finally block.
Unwind(t) ==
  LET c == tasks[t].chat
      k == tasks[t].conn
      pc == tasks[t].pc
  IN /\ conns' = CASE pc = "spawning" ->
                        [conns EXCEPT ![k].st = IF @ = "spawning" THEN "new" ELSE @]
                   [] pc = "prompting" ->
                        [conns EXCEPT ![k].acc = AccPop(@, tasks[t].sid),
                                      ![k].active_prompt = FALSE,
                                      ![k].okSid = NoSid]
                   [] OTHER -> conns
     /\ lockHolder' = IF lockHolder[c] = t THEN [lockHolder EXCEPT ![c] = NoTask]
                      ELSE lockHolder
     /\ tasks' = Ended(tasks, t, "cancelled")
     /\ activeTasks' = Unregister(c, t)

\* The task cancelled by /stop runs its cleanup.
TaskCancelled(t) ==
  /\ Live(t) /\ tasks[t].cancelReq
  /\ Unwind(t)
  /\ replies' = Silent
  /\ lastTry' = NoTry
  /\ UNCHANGED << connections, nextSessionCwd, cancelTasks, brokerV, closed, agentLog,
                  nextSid, counts >>

\* The link was shut down under an outstanding request, which ends with a
\* cancellation error.
LinkDropped(t) ==
  /\ tasks[t].pc \in {"newsession", "prompting"} /\ ~tasks[t].cancelReq
  /\ conns[tasks[t].conn].st \in {"terminating", "stopped"}
  /\ Unwind(t)
  /\ replies' = Silent
  /\ lastTry' = NoTry
  /\ UNCHANGED << connections, nextSessionCwd, cancelTasks, brokerV, closed, agentLog,
                  nextSid, counts >>

\* AgentManager.cancel, run as its own task.  task.cancel() was issued before
\* create_task, so the cancelled handler's cleanup is ahead of this
\* coroutine in the ready queue.
CancelTaskRun(c) ==
  /\ cancelTasks[c] > 0
  /\ \A t \in TaskIds : ~(Live(t) /\ tasks[t].cancelReq /\ tasks[t].chat = c)
  /\ cancelTasks' = [cancelTasks EXCEPT ![c] = @ - 1]
  /\ LET k == connections[c] IN
     IF k # NoConn /\ HasLink(conns[k].st) /\ conns[k].active_prompt
        /\ conns[k].acc # << >>
     THEN agentLog' = [agentLog EXCEPT !.cancels[conns[k].acc[1].sid] = @ + 1]
     ELSE UNCHANGED agentLog
  /\ replies' = Silent
  /\ lastTry' = NoTry
  /\ UNCHANGED << runnerV, connections, conns, lockHolder, nextSessionCwd, brokerV,
                  closed, nextSid, counts >>

\* The notifications of _send_after_delay, in the order of their delays.
TimerSchedule ==
  LET a == IF ThinkingNotifySeconds > 0 THEN << "thinking" >> ELSE << >>
      b == IF ThinkingLongNotifySeconds > 0 THEN << "thinking_long" >> ELSE << >>
  IN IF ThinkingNotifySeconds <= ThinkingLongNotifySeconds THEN a \o b ELSE b \o a

\* A thinking timer expires.
TimerFire(t) ==
  /\ Live(t) /\ tasks[t].armed
  /\ tasks[t].fired < Len(TimerSchedule)
  /\ tasks' = [tasks EXCEPT ![t].fired = @ + 1]
  /\ replies' = Say(tasks[t].chat, R(TimerSchedule[tasks[t].fired + 1]))
  /\ lastTry' = NoTry
  /\ UNCHANGED << activeTasks, managerV, brokerV, closed, agentLog, nextSid, counts >>

\* ------------------------------------------------------ PermissionBroker
FreshPerm == CHOOSE r \in PermIds :
  perms[r].pc = "unused" /\ \A q \in PermIds : q < r => perms[q].pc # "unused"

AlwaysKinds == {"allow_always", "reject_always"}

Selected(o) == [kind |-> "selected", optionId |-> o.optionId]

Cancelled == [kind |-> "cancelled", optionId |-> ""]

\* handle() has returned: the record keeps the response and how it came about.
Returned(req, outcome, via) ==
  [FreePerm EXCEPT !.chat = req.chat, !.pc = "done", !.outcome = outcome, !.via = via]

\* PermissionBroker.has_pending
HasPending(c) == pending[c] # NoPerm

\* handle() is entered for a request_permission of a running prompt's
\* session: a cached decision is returned at once, otherwise the request
\* message is being sent to the chat.
RequestPermission(t, kind, opts) ==
  /\ tasks[t].pc = "prompting" /\ ~tasks[t].cancelReq
  /\ LinkOpen(conns[tasks[t].conn].st)
  /\ Cardinality({r \in PermIds : perms[r].pc # "unused"}) < cfg.perms
  /\ LET r == FreshPerm
         c == tasks[t].chat
         s == tasks[t].sid
         cached == always[s][kind]
         req == [FreePerm EXCEPT !.chat = c, !.sid = s, !.kind = kind, !.opts = opts]
     IN IF cached # NoOpt
        THEN /\ perms' = [perms EXCEPT ![r] = Returned(req, Selected(cached), "cache")]
             /\ replies' = Silent
        ELSE /\ perms' = [perms EXCEPT ![r] = [req EXCEPT !.pc = "posting"]]
             /\ replies' = Say(c, R("permission_request"))
  /\ lastTry' = NoTry
  /\ UNCHANGED << runnerV, managerV, always, pending, cfg, closed, agentLog,
                  nextSid, counts >>

\* The request message is out: the future is created, the record is stored
\* in _pending and handle() waits for the future.
PermRegister(r) ==
  /\ perms[r].pc = "posting"
  /\ perms' = [perms EXCEPT ![r].pc = "waiting", ![r].fut = [st |-> "pending", idx |-> 0]]
  /\ pending' = [pending EXCEPT ![perms[r].chat] = r]
  /\ replies' = Silent
  /\ lastTry' = NoTry
  /\ UNCHANGED << runnerV, managerV, always, cfg, closed, agentLog, nextSid,
                  counts >>

\* try_resolve: the 1-based index the reply selects, 0 when it selects none.
ReplyIndex(opts, text) ==
  LET n == ParseInt(text) IN
  IF n.ok /\ n.val >= 1 /\ n.val <= Len(opts) THEN n.val ELSE 0

\* set_result without the done() guard.
ResolveUnguarded(fut, idx) == [st |-> "result", idx |-> idx]

\* future.set_result under the done() guard of try_resolve.
Resolve(fut, idx) ==
  IF fut.st = "pending" THEN [st |-> "result", idx |-> idx] ELSE fut

\* PermissionBroker.try_resolve on a user reply.
TryResolve(c, text) ==
  /\ LET r == pending[c]
         idx == IF r = NoPerm THEN 0 ELSE ReplyIndex(perms[r].opts, text)
     IN /\ perms' = IF idx > 0 THEN [perms EXCEPT ![r].fut = Resolve(@, idx)] ELSE perms
        /\ lastTry' = [chat |-> c, idx |-> idx, ret |-> (idx > 0), perm |-> r]
  /\ replies' = Silent
  /\ UNCHANGED << runnerV, managerV, always, pending, cfg, closed, agentLog,
                  nextSid, counts >>

\* A timeout that sends the notice but leaves the record in _pending.
PermTimeoutKeepsRecord(r) ==
  /\ perms[r].pc = "waiting"
  /\ cfg.timeout > 0
  /\ perms[r].fut.st = "pending"
  /\ perms' = [perms EXCEPT ![r].pc = "timeoutmsg", ![r].fut = [st |-> "cancelled", idx |-> 0]]
  /\ replies' = Say(perms[r].chat, R("permission_timeout"))
  /\ lastTry' = NoTry
  /\ UNCHANGED << runnerV, managerV, always, pending, cfg, closed, agentLog, nextSid, counts >>

\* wait_for gives up on a future that is still unresolved: the future is
\* cancelled, the record is popped and the timed-out notice is being sent.
PermTimeout(r) ==
  /\ perms[r].pc = "waiting"
  /\ cfg.timeout > 0
  /\ perms[r].fut.st = "pending"
  /\ perms' = [perms EXCEPT ![r].pc = "timeoutmsg", ![r].fut = [st |-> "cancelled", idx |-> 0]]
  /\ pending' = [pending EXCEPT ![perms[r].chat] = NoPerm]
  /\ replies' = Say(perms[r].chat, R("permission_timeout"))
  /\ lastTry' = NoTry
  /\ UNCHANGED << runnerV, managerV, always, cfg, closed, agentLog, nextSid,
                  counts >>

\* The notice is out: handle() returns cancelled through its finally block.
PermTimeoutDone(r) ==
  /\ perms[r].pc = "timeoutmsg"
  /\ perms' = [perms EXCEPT ![r] = Returned(@, Cancelled, "timeout")]
  /\ pending' = [pending EXCEPT ![perms[r].chat] = NoPerm]
  /\ replies' = Silent
  /\ lastTry' = NoTry
  /\ UNCHANGED << runnerV, managerV, always, cfg, closed, agentLog, nextSid,
                  counts >>

\* A cache that keeps every selected option, whatever its kind.
RememberAny(s, kind, o) == [always EXCEPT ![s][kind] = o]

\* The "always" cache after handle() got the selected option.
Remember(s, kind, o) ==
  IF o.kind \in AlwaysKinds THEN [always EXCEPT ![s][kind] = o] ELSE always

\* handle() resumes on its completed future: a result is returned as
\* selected (and cached if it is an "always" option), a cancelled future as
\* cancelled; the finally block pops the chat's record either way.
PermResume(r) ==
  /\ perms[r].pc = "waiting"
  /\ perms[r].fut.st \in {"result", "cancelled"}
  /\ pending' = [pending EXCEPT ![perms[r].chat] = NoPerm]
  /\ IF perms[r].fut.st = "result"
     THEN LET o == perms[r].opts[perms[r].fut.idx] IN
          /\ always' = Remember(perms[r].sid, perms[r].kind, o)
          /\ perms' = [perms EXCEPT ![r] = Returned(@, Selected(o), "reply")]
     ELSE /\ perms' = [perms EXCEPT ![r] = Returned(@, Cancelled, "cancel")]
          /\ UNCHANGED always
  /\ replies' = Silent
  /\ lastTry' = NoTry
  /\ UNCHANGED << runnerV, managerV, cfg, closed, agentLog, nextSid, counts >>

\* PermissionBroker.clear_session
ClearSession(s) ==
  /\ \E k \in ToolKinds : always[s][k] # NoOpt
  /\ always' = [always EXCEPT ![s] = [k \in ToolKinds |-> NoOpt]]
  /\ replies' = Silent
  /\ lastTry' = NoTry
  /\ UNCHANGED << runnerV, managerV, pending, perms, cfg, closed, agentLog,
                  nextSid, counts >>

\* ------------------------------------------------------------ peer close
\* list(self._connections.keys()): the chats that have a connection, in the
\* order in which their entries were made.
ChatIds ==
  LET connected == {c \in Chats : connections[c] # NoConn}
  IN CHOOSE ids \in [1..Cardinality(connected) -> connected] :
       \A i, j \in DOMAIN ids : i < j => connections[ids[i]] < connections[ids[j]]

RECURSIVE Sweep(_, _)
\* The loop of disconnect() up to its next suspension: an agent without link
\* and process is stopped without suspending and its connection is cleared;
\* the first agent with a link has its stop() begun.
Sweep(C, todo) ==
  IF todo = << >> THEN [conns |-> C, todo |-> todo, done |-> TRUE]
  ELSE LET k == connections[Head(todo)] IN
       IF HasLink(C[k].st)
       THEN [conns |-> [C EXCEPT ![k].st = "closing"], todo |-> todo, done |-> FALSE]
       ELSE Sweep([C EXCEPT ![k].acc = << >>, ![k].active_prompt = FALSE], Tail(todo))

\* disconnect() after the loop: _connections.clear().
Swept(r) ==
  /\ conns' = r.conns
  /\ connections' = IF r.done THEN [c \in Chats |-> NoConn] ELSE connections
  /\ counts' = [counts EXCEPT !.peer = IF r.done THEN "closed" ELSE "stopping",
                              !.todo = r.todo]

\* The transport peer closes: the server calls AgentManager.disconnect()
\* for all chats.
PeerClose ==
  /\ counts.peer = "open"
  /\ Swept(Sweep(conns, ChatIds))
  /\ replies' = Silent
  /\ lastTry' = NoTry
  /\ UNCHANGED << runnerV, lockHolder, nextSessionCwd, cancelTasks,
                  brokerV, closed, agentLog, nextSid >>

\* stop() of the loop: the link is closed, terminate() is sent.
PeerStopClosed(k) ==
  /\ counts.peer = "stopping"
  /\ conns[k].st = "closing"
  /\ conns' = [conns EXCEPT ![k].st = "terminating"]
  /\ replies' = Silent
  /\ lastTry' = NoTry
  /\ UNCHANGED << runnerV, connections, lockHolder, nextSessionCwd, cancelTasks,
                  brokerV, closed, agentLog, nextSid, counts >>

\* stop() of the loop returns: the process is reaped, the accumulators and
\* the active-prompt flag are cleared, and the loop goes on.
PeerStopDone(k) ==
  /\ counts.peer = "stopping"
  /\ conns[k].st = "terminating"
  /\ Swept(Sweep([conns EXCEPT ![k].st = "stopped", ![k].acc = << >>,
                               ![k].active_prompt = FALSE],
                 Tail(counts.todo)))
  /\ replies' = Silent
  /\ lastTry' = NoTry
  /\ UNCHANGED << runnerV, lockHolder, nextSessionCwd, cancelTasks,
                  brokerV, closed, agentLog, nextSid >>

\* ------------------------------------------------------ the specification
\* Messages of the given chats with the given texts.
Dispatch(chats, texts) ==
  \E c \in chats, text \in texts, atBot \in BOOLEAN :
    \/ MsgDrop(c, text, atBot)
    \/ MsgUsage(c, text, atBot)
    \/ MsgHelp(c, text, atBot)
    \/ MsgSend(c, text, atBot)
    \/ MsgBg(c, text, atBot)
    \/ MsgBusy(c, text, atBot)
    \/ MsgStop(c, text, atBot)
    \/ MsgNew(c, text, atBot)
    \/ MsgPrompt(c, text, atBot)

\* The steps of handler tasks, connections and cancel coroutines.
Manager ==
  \/ \E k \in ConnIds : StopClosed(k) \/ StopDone(k)
  \/ \E t \in TaskIds :
       \/ SpawnDone(t)
       \/ InitDone(t)
       \/ InitFail(t)
       \/ NewSessionDone(t)
       \/ NewSessionFail(t)
       \/ PromptDone(t)
       \/ PromptFail(t)
       \/ ErrSent(t)
       \/ ReplySent(t)
       \/ TaskCancelled(t)
       \/ LinkDropped(t)
  \/ \E c \in Chats : CancelTaskRun(c)

\* Streamed chunks, their delivery after a failure, and thinking notifications.
Stream ==
  \/ \E t \in TaskIds, part \in ChunkSet : AgentUpdate(t, part)
  \/ \E t \in TaskIds : PartialSent(t) \/ TimerFire(t) \/ LateUpdate(t)

\* Permission requests, user replies to them, and cache clearing.
Broker(chats, rtexts) ==
  \/ \E t \in TaskIds, kind \in ToolKinds, opts \in OptLists : RequestPermission(t, kind, opts)
  \/ \E r \in PermIds : PermRegister(r) \/ PermTimeout(r) \/ PermTimeoutDone(r) \/ PermResume(r)
  \/ \E c \in chats, text \in rtexts : TryResolve(c, text)
  \/ \E s \in Sids : ClearSession(s)

Next == Dispatch(Chats, Texts) \/ Manager \/ Stream \/ Broker(Chats, ReplyTexts)

\* The whole bridge.
Spec == Init /\ [][Next]_vars

NextRunner == Dispatch(Chats, Texts) \/ Manager

\* Dispatcher, prompt runner and agent manager with both chats: prompts
\* without streamed content and without permission requests.
SpecRunner ==
  /\ InitWith(Config(PermissionTimeout, MaxTasks, 0, MaxMsgs, 0))
  /\ [][NextRunner]_vars

StreamChats == {"group:222"}

NextStream == Dispatch(StreamChats, Texts) \/ Manager \/ Stream

\* One chat whose prompts stream content and run the thinking timers.
SpecStream ==
  /\ InitWith(Config(PermissionTimeout, MaxTasks, 0, MaxMsgs, MaxChunks))
  /\ [][NextStream]_vars

\* The messages that start, stop or reset a prompt.
Commands(chats, texts) ==
  \E c \in chats, text \in texts, atBot \in BOOLEAN :
    \/ MsgBusy(c, text, atBot)
    \/ MsgStop(c, text, atBot)
    \/ MsgNew(c, text, atBot)
    \/ MsgPrompt(c, text, atBot)

PermissionChats == {"private:111"}

PermissionTexts == { << "hi" >>, << "/stop" >>, << "/new" >> }

PermissionTasks == 1

NextPermission ==
  Commands(PermissionChats, PermissionTexts) \/ Manager \/ Broker(PermissionChats, ReplyTexts)

\* One chat and one prompt that raises permission requests.
SpecPermission ==
  /\ InitWith(Config(PermissionTimeout, PermissionTasks, MaxPerms, MaxMsgs, 0))
  /\ [][NextPermission]_vars

ConcurrentChunks == 1

NextConcurrent ==
  \/ Commands(Chats, PermissionTexts)
  \/ Manager
  \/ \E t \in TaskIds, part \in ChunkSet : AgentUpdate(t, part)
  \/ \E t \in TaskIds : PartialSent(t)

\* Both chats, each with a prompt that may stream one chunk.
SpecConcurrent ==
  /\ InitWith(Config(PermissionTimeout, MaxTasks, 0, MaxMsgs, ConcurrentChunks))
  /\ [][NextConcurrent]_vars


InterceptTexts == { << "hi" >>, << "1" >>, << "/stop" >>, << "/new" >> }

InterceptReplies == { << "1" >> }

InterceptPerms == 1

NextIntercept ==
  \/ Commands(PermissionChats, InterceptTexts)
  \/ Manager
  \/ Broker(PermissionChats, InterceptReplies)

\* One chat whose user types option numbers and other texts into the chat
\* while a permission request may be pending.
SpecIntercept ==
  /\ InitWith(Config(PermissionTimeout, PermissionTasks, InterceptPerms, MaxMsgs, 0))
  /\ [][NextIntercept]_vars

IsolationPerms == 1

NextIsolation ==
  \/ Commands(Chats, PermissionTexts)
  \/ Manager
  \/ Broker(Chats, InterceptReplies)

\* Both chats, each with a prompt that may raise a permission request.
SpecIsolation ==
  /\ InitWith(Config(PermissionTimeout, MaxTasks, IsolationPerms, MaxMsgs, 0))
  /\ [][NextIsolation]_vars

PeerTexts == { << "hi" >>, << "/stop" >> }

NextPeer ==
  \/ \E c \in Chats, text \in PeerTexts, atBot \in BOOLEAN :
       \/ MsgBusy(c, text, atBot)
       \/ MsgStop(c, text, atBot)
       \/ MsgPrompt(c, text, atBot)
  \/ \E t \in TaskIds :
       \/ SpawnDone(t)
       \/ InitDone(t)
       \/ InitFail(t)
       \/ NewSessionDone(t)
       \/ NewSessionFail(t)
       \/ PromptDone(t)
       \/ PromptFail(t)
       \/ ErrSent(t)
       \/ ReplySent(t)
       \/ TaskCancelled(t)
       \/ LinkDropped(t)
  \/ \E c \in Chats : CancelTaskRun(c)
  \/ \E k \in ConnIds : PeerStopClosed(k) \/ PeerStopDone(k)
  \/ PeerClose

\* Both chats prompting and stopping until the transport peer closes and
\* every chat is disconnected.
SpecPeer ==
  /\ InitWith(Config(PermissionTimeout, MaxTasks, 0, MaxMsgs, 0))
  /\ [][NextPeer]_vars

\* A step by which the handler task t gets on without waiting for the
\* agent's answer to session/new or session/prompt: the subprocess is
\* created, the initialize request returns or fails within its timeout, a
\* reply has been sent, a cancellation is delivered, or a request on a link
\* that was shut down ends.
Settles(t) ==
  \/ SpawnDone(t)
  \/ InitDone(t)
  \/ InitFail(t)
  \/ ErrSent(t)
  \/ ReplySent(t)
  \/ TaskCancelled(t)
  \/ LinkDropped(t)

\* AgentProcess.stop gets on: the link closes, the subprocess is reaped.
Stops(k) == StopClosed(k) \/ StopDone(k)

NewChats == {"private:111"}

NewTexts == { << "hi" >>, << "/stop" >>, << "/new" >> }

NextNew == Commands(NewChats, NewTexts) \/ Manager

\* One chat prompting, stopping and starting new sessions, with every
\* awaited step that does not depend on the agent's answer completing.
SpecNew ==
  /\ InitWith(Config(PermissionTimeout, MaxTasks, 0, MaxMsgs, 0))
  /\ [][NextNew]_vars
  /\ \A t \in TaskIds : WF_vars(Settles(t))
  /\ \A k \in ConnIds : WF_vars(Stops(k))

\* ------------------------------------------------------------- the claims
\* One handle_message call for the given message.
HandleMessage(c, text, atBot) ==
  \/ MsgDrop(c, text, atBot)
  \/ MsgUsage(c, text, atBot)
  \/ MsgHelp(c, text, atBot)
  \/ MsgSend(c, text, atBot)
  \/ MsgBg(c, text, atBot)
  \/ MsgBusy(c, text, atBot)
  \/ MsgStop(c, text, atBot)
  \/ MsgNew(c, text, atBot)
  \/ MsgPrompt(c, text, atBot)

TasksOf(c) == {t \in TaskIds : Live(t) /\ tasks[t].chat = c}

PromptsOf(c) == {t \in TaskIds : tasks[t].pc = "prompting" /\ tasks[t].chat = c}

\* A message that is no command of the bridge: a /send body, or a text that
\* matches no command pattern and is no /bg command.
NonCommand(text) ==
  \/ StripSend(text).forwarded
  \/ /\ ~StripSend(text).usage
     /\ ~MatchNew(text).matched /\ ~MatchStop(text) /\ ~MatchSend(text).matched
     /\ ~MatchHelp(text)
     /\ ~StartsWithBg(text)

BusyRejected ==
  \A c \in Chats, text \in Texts, atBot \in BOOLEAN :
    ( /\ activeTasks[c] # NoTask
      /\ counts' # counts
      /\ (IsGroup(c) => atBot)
      /\ NonCommand(text)
      /\ HandleMessage(c, text, atBot) )
    => /\ replies' = Say(c, R("busy"))
       /\ agentLog' = agentLog
       /\ tasks' = tasks
       /\ activeTasks' = activeTasks

\* C1: every chat has at most one registered prompt task and at most one
\* outstanding session/prompt; a non-command message (a /send body included)
\* for a chat whose prompt is in flight gets the busy reply, starts no task
\* and makes no agent call.
C1_SingleFlight ==
  /\ [](\A c \in Chats : Cardinality(TasksOf(c)) <= 1 /\ Cardinality(PromptsOf(c)) <= 1)
  /\ [][BusyRejected]_vars

\* A busy reply was just given to a chat whose prompt is outstanding.
C1_Witness ==
  \E c \in Chats :
    /\ replies = Say(c, R("busy"))
    /\ PromptsOf(c) # {}
    /\ agentLog.prompts[c] = 1

\* C2: when send_prompt returns on the session/prompt response, the parts it
\* returns are exactly the chunks that arrived since the prompt was sent, in
\* arrival order.
C2_AccumulatorOrder ==
  \A t \in TaskIds : tasks[t].pc = "reply" => tasks[t].parts = tasks[t].arrived

\* C3: once a /stop for a chat with an outstanding prompt has run its
\* course (the task cancelled, the cancel coroutine finished), session/cancel
\* was sent exactly once for that prompt's session.
C3_StopSendsCancelOnce ==
  \A t \in TaskIds :
    ( /\ tasks[t].stopped
      /\ tasks[t].pc = "cancelled"
      /\ cancelTasks[tasks[t].chat] = 0 )
    => agentLog.cancels[tasks[t].sid] = 1

\* C4: on a connection whose latest prompt completed successfully (no /new,
\* error, cancellation or disconnect since), the next prompt sends no
\* session/new and uses the same session id.
C4_SessionContinuity ==
  \A t \in TaskIds :
    ( /\ tasks[t].pc \in {"newsession", "prompting"}
      /\ conns[tasks[t].conn].okSid # NoSid )
    => /\ tasks[t].pc = "prompting"
       /\ tasks[t].sid = conns[tasks[t].conn].okSid

\* The option a reply selects from the request pending for the chat.
Choice(c, text) == ReplyIndex(perms[pending[c]].opts, text)

ValidReplyResolves ==
  \A c \in Chats, text \in ReplyTexts :
    (HasPending(c) /\ TryResolve(c, text) /\ Choice(c, text) > 0)
    => /\ lastTry'.ret
       /\ perms'[pending[c]].fut = [st |-> "result", idx |-> Choice(c, text)]

InvalidReplyIgnored ==
  \A c \in Chats, text \in ReplyTexts :
    (HasPending(c) /\ TryResolve(c, text) /\ Choice(c, text) = 0)
    => /\ ~lastTry'.ret
       /\ perms' = perms
       /\ pending' = pending

\* handle() returns on a future that holds a result.
ReturnsResult(r) ==
  perms[r].pc = "waiting" /\ perms[r].fut.st = "result" /\ perms'[r].pc = "done"

ResultReturned ==
  \A r \in PermIds :
    ReturnsResult(r) => perms'[r].outcome = Selected(perms[r].opts[perms[r].fut.idx])

\* C5: while a request is pending for a chat, a reply that is an integer n
\* within 1..number of options resolves the request with the n-th option as
\* received, and handle() returns selected(that option's id); any other
\* reply leaves the request pending and unresolved.
C5_ReplyResolves ==
  /\ [][ValidReplyResolves]_vars
  /\ [][InvalidReplyIgnored]_vars
  /\ [][ResultReturned]_vars

\* handle() is entered for a request of session s and tool kind k.
Enters(r, s, k) ==
  /\ perms[r].pc = "unused"
  /\ perms'[r].pc # "unused"
  /\ \E u \in TaskIds, opts \in OptLists :
       tasks[u].sid = s /\ RequestPermission(u, k, opts)

CacheHit ==
  \A r \in PermIds, s \in Sids, k \in ToolKinds :
    (always[s][k] # NoOpt /\ Enters(r, s, k))
    => /\ perms'[r].pc = "done"
       /\ perms'[r].outcome = Selected(always[s][k])
       /\ replies' = Silent
       /\ pending' = pending

CacheMiss ==
  \A r \in PermIds, s \in Sids, k \in ToolKinds :
    (always[s][k] = NoOpt /\ Enters(r, s, k))
    => /\ perms'[r].pc = "posting"
       /\ replies'.msg = R("permission_request")

\* An entry changes only when clear_session empties the session's cache or
\* when handle() returns an "always" option the user selected for it.
CacheWrites ==
  \A s \in Sids, k \in ToolKinds :
    always'[s][k] # always[s][k]
    => \/ \A j \in ToolKinds : always'[s][j] = NoOpt
       \/ \E r \in PermIds :
            /\ ReturnsResult(r)
            /\ perms[r].sid = s /\ perms[r].kind = k
            /\ perms[r].opts[perms[r].fut.idx].kind \in AlwaysKinds
            /\ always'[s][k] = perms[r].opts[perms[r].fut.idx]

AlwaysCached ==
  \A r \in PermIds :
    (ReturnsResult(r) /\ perms[r].opts[perms[r].fut.idx].kind \in AlwaysKinds)
    => always'[perms[r].sid][perms[r].kind] = perms[r].opts[perms[r].fut.idx]

\* C6: an allow_always / reject_always option the user selects for
\* (session, tool kind) is cached; while the entry exists a request for the
\* same session and kind returns it at once, posts nothing and registers no
\* pending record; the entry stays until clear_session(session), after which
\* a request posts again; once-options, timeouts and cancellations write
\* nothing to the cache.
C6_AlwaysCache ==
  /\ [][CacheHit]_vars
  /\ [][CacheMiss]_vars
  /\ [][CacheWrites]_vars
  /\ [][AlwaysCached]_vars

\* A request was answered from the cache while nothing is pending.
C6_Witness ==
  \E r \in PermIds :
    /\ perms[r].pc = "done" /\ perms[r].via = "cache"
    /\ perms[r].outcome.kind = "selected"
    /\ ~HasPending(perms[r].chat)

\* C7: no "always" entry remains for a session that was closed or replaced
\* (by /new or by an error).
C7_ClosedSessionsForgotten ==
  \A s \in closed : \A k \in ToolKinds : always[s][k] = NoOpt

\* C8: has_pending(c) implies that chat c has an active prompt task.
C8_PendingOnlyInFlight ==
  \A c \in Chats : HasPending(c) => activeTasks[c] # NoTask

FutureCompletedOnce ==
  \A r \in PermIds :
    (perms[r].fut.st \in {"result", "cancelled"} /\ perms'[r].pc # "done")
    => perms'[r].fut = perms[r].fut

OneOutcome ==
  \A r \in PermIds :
    /\ perms[r].pc = "done" => perms'[r] = perms[r]
    /\ (perms[r].pc # "done" /\ perms'[r].pc = "done")
       => /\ perms'[r].outcome.kind \in {"selected", "cancelled"}
          /\ perms[r].fut.st = "result"
             => perms'[r].outcome = Selected(perms[r].opts[perms[r].fut.idx])
          /\ perms[r].fut.st = "cancelled" => perms'[r].outcome = Cancelled

\* C9: under every interleaving of try_resolve, the timeout and
\* cancel_pending, a request's future is completed at most once, and
\* handle() returns exactly one outcome, the one its future was completed
\* with.
C9_NoDoubleResolve ==
  /\ [][FutureCompletedOnce]_vars
  /\ [][OneOutcome]_vars

\* A second valid reply reached a request whose future already held the
\* first reply's option.
C9_Witness ==
  /\ lastTry.ret
  /\ lastTry.perm # NoPerm
  /\ perms[lastTry.perm].fut.st = "result"
  /\ perms[lastTry.perm].fut.idx # lastTry.idx

TimesOut(r) == perms[r].pc = "waiting" /\ perms'[r].pc = "timeoutmsg"

TimeoutReturns(r) == perms[r].pc = "timeoutmsg" /\ perms'[r].pc = "done"

TimedOut ==
  \A r \in PermIds :
    /\ TimesOut(r)
       => /\ cfg.timeout > 0
          /\ perms[r].fut.st = "pending"
          /\ replies' = Say(perms[r].chat, R("permission_timeout"))
          /\ pending'[perms[r].chat] = NoPerm
          /\ always' = always
    /\ TimeoutReturns(r)
       => /\ perms'[r].outcome = Cancelled
          /\ pending'[perms[r].chat] = NoPerm
          /\ always' = always

\* C10: with a timeout configured, a request the user does not answer in
\* time gets the timed-out notice posted, its record removed (has_pending
\* false), the outcome cancelled returned, and no cache entry written.
C10_Timeout == [][TimedOut]_vars

\* A request has timed out and returned cancelled.
C10_Witness ==
  \E r \in PermIds :
    /\ perms[r].pc = "done" /\ perms[r].via = "timeout"
    /\ perms[r].outcome = Cancelled
    /\ ~HasPending(perms[r].chat)

\* /stop reaches a chat whose request handle() is waiting on.
StopCancels ==
  \A c \in Chats, text \in Texts, atBot \in BOOLEAN :
    ( /\ HasPending(c)
      /\ perms[pending[c]].pc = "waiting"
      /\ perms[pending[c]].fut.st = "pending"
      /\ activeTasks[c] # NoTask
      /\ MsgStop(c, text, atBot) )
    => /\ perms'[pending[c]].fut.st = "cancelled"
       /\ pending'[c] = NoPerm

\* handle() waiting on a cancelled future only returns, and returns cancelled.
CancelReturns ==
  \A r \in PermIds :
    (perms[r].pc = "waiting" /\ perms[r].fut.st = "cancelled")
    => /\ perms'[r].pc \in {"waiting", "done"}
       /\ perms'[r].pc = "done"
          => /\ perms'[r].outcome = Cancelled
             /\ replies' = Silent
             /\ pending'[perms[r].chat] = NoPerm

C12_Interception ==
  [][\A c \in Chats, text \in InterceptTexts, atBot \in BOOLEAN :
       ( /\ HasPending(c)
         /\ NonCommand(text)
         /\ (IsGroup(c) => atBot)
         /\ HandleMessage(c, text, atBot) )
       => /\ agentLog' = agentLog
          /\ tasks' = tasks
          /\ IF Choice(c, text) > 0
             THEN /\ replies' = Silent
                  /\ perms'[pending[c]].fut.st = "result"
             ELSE /\ replies' = Say(c, R("permission_hint"))
                  /\ perms' = perms]_vars

\* The handle() invocations of a chat that wait for the user's decision.
Awaiting(c) ==
  {r \in PermIds : perms[r].chat = c /\ perms[r].pc = "waiting" /\ perms[r].fut.st = "pending"}

\* C13: at most one permission request per chat awaits the user's decision
\* at any time (with at most one prompt in flight per chat).
C13_OneRequestPerChat ==
  \A c \in Chats : Cardinality(TasksOf(c)) <= 1 => Cardinality(Awaiting(c)) <= 1

\* send_prompt raises on a failed session/prompt.
Fails(t) == tasks[t].pc = "prompting" /\ tasks'[t].pc \in {"partial", "errreply"}

FailDelivers ==
  \A t \in TaskIds :
    Fails(t)
    => IF Usable(tasks[t].arrived)
       THEN /\ tasks'[t].pc = "partial"
            /\ replies' = Say(tasks[t].chat, Content(tasks[t].arrived))
       ELSE /\ tasks'[t].pc = "errreply"
            /\ replies' = Say(tasks[t].chat, R("agent_error"))

ErrorAfterPartial ==
  \A t \in TaskIds :
    /\ (tasks[t].pc = "partial" /\ tasks'[t].pc \notin {"partial", "cancelled"})
       => /\ tasks'[t].pc = "errreply"
          /\ replies' = Say(tasks[t].chat, R("agent_error_partial"))
    /\ (tasks[t].pc = "errreply" /\ tasks'[t].pc # "errreply")
       => replies' = Silent

\* C14: when a prompt fails, the chunks streamed so far are delivered to
\* the chat first and the error message after them; when nothing usable was
\* streamed, the error message is the only message delivered.
C14_PartialThenError ==
  /\ [][FailDelivers]_vars
  /\ [][ErrorAfterPartial]_vars

\* The handler of a failed prompt ends: it leaves the error path.
FailureEnds(t) ==
  tasks[t].pc \in {"partial", "errreply"} /\ tasks'[t].pc \in {"done", "cancelled"}

AfterFailure ==
  \A t \in TaskIds :
    FailureEnds(t)
    => /\ tasks[t].sid # NoSid => tasks[t].sid \in closed'
       /\ connections[tasks[t].chat] # NoConn
          => conns'[connections[tasks[t].chat]].acc = << >>
       /\ activeTasks'[tasks[t].chat] = NoTask
       /\ agentLog' = agentLog

\* A failed prompt is left only by finishing or by being cancelled.
NoRetry ==
  \A t \in TaskIds :
    tasks[t].pc \in {"partial", "errreply"}
    => tasks'[t].pc \in {"partial", "errreply", "done", "cancelled"}

\* A session/prompt is sent on a session that was never closed before.
FreshSession ==
  \A u \in TaskIds :
    (tasks[u].pc # "prompting" /\ tasks'[u].pc = "prompting")
    => tasks'[u].sid \notin closed

\* C15: when the handler of a failed (not cancelled) prompt ends,
\* close_session has been performed and the chat is not busy; the failed
\* prompt is not sent again (at most one session/prompt per dispatched
\* message); a later prompt of the chat runs in a session that was not
\* closed before.
C15_FailureClosesSession ==
  /\ [][AfterFailure]_vars
  /\ [][NoRetry]_vars
  /\ [][FreshSession]_vars
  /\ [](\A c \in Chats :
          agentLog.prompts[c]
            <= Cardinality({t \in TaskIds : tasks[t].chat = c /\ tasks[t].pc # "unused"}))

\* A late chunk is among the parts.
HasLate(parts) == \E i \in DOMAIN parts : parts[i] = LatePart

\* A late chunk for a prompt whose handler has run its cleanup is dropped.
LateDiscarded ==
  \A t \in TaskIds :
    (tasks[t].pc = "cancelled" /\ LateUpdate(t)) => conns' = conns

\* C16: a chunk that arrives for a prompt after /stop cancelled it is
\* discarded: it is in no reply, in no returned or partial content, and in
\* no accumulator of a prompt that was not cancelled.
C16_LateUpdatesDiscarded ==
  /\ [][LateDiscarded]_vars
  /\ [](/\ ~HasLate(replies.msg.parts)
        /\ \A u \in TaskIds :
             /\ ~HasLate(tasks[u].parts)
             /\ (tasks[u].pc = "prompting" /\ ~tasks[u].cancelReq)
                => ~HasLate(AccGet(conns[tasks[u].conn].acc, tasks[u].sid)))

\* A late chunk sits in the accumulator of a prompt that /stop has
\* cancelled and whose handler has not run its cleanup yet.
C16_Witness ==
  \E t \in TaskIds :
    /\ tasks[t].pc = "prompting" /\ tasks[t].cancelReq /\ tasks[t].stopped
    /\ HasLate(AccGet(conns[tasks[t].conn].acc, tasks[t].sid))

\* Every accumulator entry belongs to an outstanding session/prompt.
AccOnlyInFlight ==
  \A k \in ConnIds : \A i \in DOMAIN conns[k].acc :
    \E t \in TaskIds :
      /\ tasks[t].pc = "prompting" /\ tasks[t].conn = k
      /\ tasks[t].sid = conns[k].acc[i].sid

AccCreated ==
  \A t \in TaskIds :
    (tasks[t].pc # "prompting" /\ tasks'[t].pc = "prompting")
    => /\ AccHas(conns'[tasks'[t].conn].acc, tasks'[t].sid)
       /\ AccGet(conns'[tasks'[t].conn].acc, tasks'[t].sid) = << >>

AccKept ==
  \A t \in TaskIds :
    (tasks[t].pc = "prompting" /\ tasks'[t].pc = "prompting")
    => AccHas(conns'[tasks[t].conn].acc, tasks[t].sid)

AccRemoved ==
  \A t \in TaskIds :
    (tasks[t].pc = "prompting" /\ tasks'[t].pc # "prompting")
    => ~AccHas(conns'[tasks[t].conn].acc, tasks[t].sid)

\* C17: an accumulator is created, empty, when session/prompt is sent, stays
\* until that prompt ends and is gone when it has ended; an accumulator
\* exists only while a prompt of its chat is in flight.
C17_AccumulatorLifecycle ==
  /\ [][AccCreated]_vars
  /\ [][AccKept]_vars
  /\ [][AccRemoved]_vars
  /\ []AccOnlyInFlight

\* The session ids recorded for a chat, over every connection object that
\* was created for it.
SessionsOf(c) ==
  { s \in Sids : \E k \in ConnIds : conns[k].chat = c /\ AccHas(conns[k].acc, s) }

\* C18: at most one session id is recorded for each chat in every reachable
\* state.
C18_OneSessionPerChat ==
  \A c \in Chats : Cardinality(SessionsOf(c)) <= 1

\* A chat holds a session on a new connection after an earlier connection
\* of the same chat, which had a session of its own, was disconnected.
C18_Witness ==
  \E c \in Chats : \E k, j \in ConnIds :
    /\ k # j /\ conns[k].chat = c /\ conns[j].chat = c
    /\ conns[j].st = "stopped" /\ conns[j].sids # {}
    /\ connections[c] = k
    /\ Cardinality(SessionsOf(c)) = 1

Elems(seq) == { seq[i] : i \in DOMAIN seq }

\* A message for a chat without a registered prompt is not busy-rejected
\* while another chat's prompt is in flight; a non-command one starts a
\* prompt of its own.
OthersNotBusy ==
  \A c \in Chats, text \in Texts, atBot \in BOOLEAN :
    ( /\ activeTasks[c] = NoTask
      /\ \E a \in Chats \ {c} : PromptsOf(a) # {}
      /\ HandleMessage(c, text, atBot) )
    => /\ replies' # Say(c, R("busy"))
       /\ ( (counts' # counts /\ (IsGroup(c) => atBot) /\ NonCommand(text))
            => /\ activeTasks'[c] # NoTask
               /\ activeTasks'[c] \notin { activeTasks[a] : a \in Chats } )

\* The reply of a finished prompt goes to the prompt's chat and holds only
\* content that arrived for that prompt.
OwnReply ==
  \A t \in TaskIds :
    (tasks[t].pc = "prompting" /\ tasks'[t].pc = "reply")
    => /\ Elems(tasks'[t].parts) \subseteq Elems(tasks[t].arrived)
       /\ replies' = Say(tasks[t].chat,
                         IF Usable(tasks'[t].parts) THEN Content(tasks'[t].parts)
                         ELSE R("empty"))

\* C19: while a prompt is in flight for one chat, a message for another
\* chat is never busy-rejected and starts its own prompt, and each prompt's
\* reply goes to its own chat with its own content.
C19_ChatsConcurrent ==
  /\ [][OthersNotBusy]_vars
  /\ [][OwnReply]_vars

\* The prompts of both chats are outstanding at once, each with a chunk of
\* its own that differs from the other's.
C19_Witness ==
  \E t, u \in TaskIds :
    /\ tasks[t].pc = "prompting" /\ tasks[u].pc = "prompting"
    /\ tasks[t].chat # tasks[u].chat
    /\ AccGet(conns[tasks[t].conn].acc, tasks[t].sid) = << TextPart("a") >>
    /\ AccGet(conns[tasks[u].conn].acc, tasks[u].sid) = << ImagePart("i") >>

\* What the bridge holds for one chat: its connection and the connection
\* objects made for it (subprocess state, sessions, accumulators,
\* active-prompt flag), its registered task and its permission requests.
ChatState(b) ==
  [connection |-> connections[b],
   objects    |-> [k \in ConnIds |-> IF conns[k].chat = b THEN conns[k] ELSE FreeConn],
   active     |-> activeTasks[b],
   handlers   |-> [t \in TaskIds |-> IF tasks[t].chat = b THEN tasks[t] ELSE FreeTask],
   pending    |-> pending[b],
   requests   |-> [r \in PermIds |-> IF perms[r].chat = b THEN perms[r] ELSE FreePerm]]

\* A step of a failed prompt, of /stop, of /new, of closing the session or
\* of disconnecting, for chat a.
OperationOn(a) ==
  \/ \E text \in Texts, atBot \in BOOLEAN : MsgStop(a, text, atBot) \/ MsgNew(a, text, atBot)
  \/ CancelTaskRun(a)
  \/ \E t \in TaskIds :
       /\ tasks[t].chat = a
       /\ \/ InitFail(t) \/ NewSessionFail(t) \/ PromptFail(t)
          \/ PartialSent(t) \/ ErrSent(t)
          \/ TaskCancelled(t) \/ LinkDropped(t)
  \/ \E k \in ConnIds :
       /\ conns[k].chat = a
       /\ StopClosed(k) \/ StopDone(k)

\* C20: a failed prompt, /stop, /new, closing the session or disconnecting
\* for one chat leaves every other chat's connection, subprocess, session,
\* accumulator, active-prompt flag, task and pending permission unchanged.
C20_ChatIsolation ==
  [][\A a \in Chats : OperationOn(a)
        => \A b \in Chats \ {a} : ChatState(b)' = ChatState(b)]_vars

\* One chat's session/prompt has just failed while the other chat has an
\* outstanding prompt with a pending permission request.
C20_Witness ==
  \E t, u \in TaskIds : \E r \in PermIds :
    /\ tasks[t].pc = "errreply" /\ tasks[t].sid # NoSid
    /\ tasks[t].chat # tasks[u].chat
    /\ replies = Say(tasks[t].chat, R("agent_error"))
    /\ tasks[u].pc = "prompting" /\ conns[tasks[u].conn].active_prompt
    /\ pending[tasks[u].chat] = r /\ perms[r].pc = "waiting"

\* The text /stop, addressed to the bot, is handled for a chat that has no
\* registered prompt task.
IdleStop(c, atBot) ==
  /\ activeTasks[c] = NoTask
  /\ (IsGroup(c) => atBot)
  /\ HandleMessage(c, << "/stop" >>, atBot)

\* C21: /stop for a chat with no active prompt task replies with the
\* nothing-to-cancel notice, sends no session/cancel, cancels no pending
\* permission and leaves connection, session and accumulator unchanged.
C21_IdleStop ==
  [][\A c \in Chats, atBot \in BOOLEAN :
       IdleStop(c, atBot)
       => /\ replies' = Say(c, R("no_active"))
          /\ UNCHANGED << agentLog, cancelTasks, pending, perms, always,
                          connections, conns, tasks, activeTasks,
                          nextSessionCwd, lockHolder, nextSid, closed >>]_vars

\* The notice was just given to a chat whose connection is up and whose
\* earlier prompt was answered on a session.
C21_Witness ==
  \E c \in Chats :
    /\ replies = Say(c, R("no_active"))
    /\ activeTasks[c] = NoTask
    /\ connections[c] # NoConn
    /\ conns[connections[c]].st = "ready"
    /\ conns[connections[c]].okSid # NoSid

\* A subprocess is started for a connection only when the connection has
\* none, by a task that takes the free lock of the connection's chat.
SpawnOnlyWhenDown ==
  \A k \in ConnIds :
    (conns[k].st # "spawning" /\ conns'[k].st = "spawning")
    => /\ conns[k].st \in {"unused", "new", "stopped"}
       /\ lockHolder[conns'[k].chat] = NoTask
       /\ lockHolder'[conns'[k].chat] # NoTask

\* initialize is sent once for each subprocess started.
HandshakePerSpawn ==
  \A k \in ConnIds :
    (conns[k].st # "handshake" /\ conns'[k].st = "handshake")
    => conns[k].st = "spawning"

\* ensure_connection on a running connection changes nothing.
RunningUntouched ==
  \A c \in Chats, text \in Texts, atBot \in BOOLEAN :
    ( /\ connections[c] # NoConn
      /\ conns[connections[c]].st \in {"handshake", "ready"}
      /\ MsgPrompt(c, text, atBot) )
    => /\ connections' = connections
       /\ lockHolder' = lockHolder
       /\ \A k \in ConnIds : conns'[k].st = conns[k].st /\ conns'[k].chat = conns[k].chat

\* At most one task of a chat is inside start_once, and it holds the lock.
OneStarter ==
  \A c \in Chats :
    LET starting == { t \in TaskIds : /\ tasks[t].chat = c
                                       /\ tasks[t].pc \in {"spawning", "handshake"} }
    IN /\ Cardinality(starting) <= 1
       /\ \A t \in starting : lockHolder[c] = t

\* C22: calls of ensure_connection for one chat start a subprocess only for
\* a connection that has none, one at a time under the chat's lock, send
\* initialize once per subprocess, and change nothing when the connection
\* is running.
C22_EnsureIdempotent ==
  /\ [][SpawnOnlyWhenDown]_vars
  /\ [][HandshakePerSpawn]_vars
  /\ [][RunningUntouched]_vars
  /\ []OneStarter

\* A second prompt of a chat has just been taken on the connection that
\* answered the first: session/new is out, the connection is still ready.
C22_Witness ==
  \E t \in TaskIds :
    /\ tasks[t].pc = "newsession"
    /\ conns[tasks[t].conn].st = "ready"
    /\ conns[tasks[t].conn].sids # {}
    /\ lockHolder[tasks[t].chat] = NoTask
    /\ counts.msgs >= 2

\* start_once raises in this step for task t, whose connection is still the
\* one it started.
HandshakeFails(t) ==
  /\ tasks[t].pc = "handshake"
  /\ conns[tasks[t].conn].st = "handshake"
  /\ InitFail(t)

\* After a failed handshake the connection does not report running, the
\* lock is free and the handler reports the agent error.
FailureTearsDown ==
  \A t \in TaskIds :
    HandshakeFails(t)
    => /\ conns'[tasks[t].conn].st \notin {"handshake", "ready", "closing"}
       /\ lockHolder'[tasks[t].chat] = NoTask
       /\ tasks'[t].pc = "errreply"
       /\ replies' = Say(tasks[t].chat, R("agent_error"))

\* A prompt for a chat whose connection was torn down starts the agent again.
Reconnects ==
  \A c \in Chats, text \in Texts, atBot \in BOOLEAN :
    ( /\ connections[c] # NoConn
      /\ conns[connections[c]].st = "stopped"
      /\ MsgPrompt(c, text, atBot) )
    => /\ conns'[connections[c]].st = "spawning"
       /\ tasks'[activeTasks'[c]].pc = "spawning"
       /\ lockHolder'[c] = activeTasks'[c]
       /\ agentLog' = agentLog

SubprocessAlive(k) == conns[k].st \in {"handshake", "ready", "closing", "terminating"}

\* disconnect has removed the entry of k's chat and k's subprocess is alive.
HalfDisconnected(k) == SubprocessAlive(k) /\ connections[conns[k].chat] # k

\* Only the disconnect that is under way takes a step while an entry is
\* removed and its subprocess alive.
NothingInterleaves ==
  (\E k \in ConnIds : HalfDisconnected(k))
  => \E k \in ConnIds : HalfDisconnected(k) /\ (StopClosed(k) \/ StopDone(k))

\* When disconnect returns, the chat has no entry, no subprocess, no
\* accumulator and no active-prompt flag.
CleanAfterDisconnect ==
  \A c \in Chats : \A k \in ConnIds :
    (conns[k].chat = c /\ conns[k].st = "terminating" /\ StopDone(k))
    => /\ connections'[c] = NoConn
       /\ \A j \in ConnIds :
            conns'[j].chat = c
            => /\ conns'[j].st \notin {"spawning", "handshake", "ready", "closing",
                                       "terminating"}
               /\ conns'[j].acc = << >>
               /\ ~conns'[j].active_prompt

\* C24: disconnect removes the chat's entry and terminates its subprocess
\* atomically: no other operation runs between the two, and when it returns
\* the chat has no entry, subprocess, accumulator or active-prompt flag.
C24_DisconnectAtomic ==
  /\ [][NothingInterleaves]_vars
  /\ [][CleanAfterDisconnect]_vars

\* C25: after the peer close has been handled no chat keeps a live session
\* or a running agent connection.
C25_PeerCloseDisconnectsAll ==
  counts.peer = "closed"
  => /\ \A c \in Chats : connections[c] = NoConn
     /\ \A k \in ConnIds :
          /\ conns[k].st \notin {"handshake", "ready", "closing", "terminating"}
          /\ conns[k].acc = << >>

\* close_session at the end of a failed prompt: the session is forgotten,
\* the connection table and every agent's state stay as they are.
CloseKeepsConnection ==
  \A t \in TaskIds :
    (tasks[t].pc = "errreply" /\ ErrSent(t))
    => /\ connections' = connections
       /\ \A k \in ConnIds : conns'[k].st = conns[k].st /\ conns'[k].chat = conns[k].chat
       /\ LET k == connections[tasks[t].chat]
          IN k # NoConn => conns'[k].acc = << >>

\* A prompt for a chat whose running connection holds no session sends
\* session/new on that connection and starts nothing.
SessionNewOnSameConnection ==
  \A c \in Chats, text \in Texts, atBot \in BOOLEAN :
    ( /\ connections[c] # NoConn
      /\ conns[connections[c]].st = "ready"
      /\ conns[connections[c]].acc = << >>
      /\ MsgPrompt(c, text, atBot) )
    => /\ connections' = connections
       /\ conns'[connections[c]].st = "ready"
       /\ tasks'[activeTasks'[c]].pc = "newsession"
       /\ tasks'[activeTasks'[c]].conn = connections[c]
       /\ Len(agentLog'.news[c]) = Len(agentLog.news[c]) + 1
       /\ lockHolder' = lockHolder

\* C26: close_session forgets the chat's session and keeps the connection
\* entry and the running subprocess; the next prompt sends session/new on
\* the same connection without spawn or handshake.
C26_CloseSessionKeepsConnection ==
  /\ [][CloseKeepsConnection]_vars
  /\ [][SessionNewOnSameConnection]_vars

\* After a failed prompt whose session was closed, the chat's next prompt has
\* sent session/new on the connection that had the closed session.
C26_Witness ==
  \E t, u \in TaskIds :
    /\ tasks[u].pc = "done" /\ tasks[u].sid \in closed
    /\ tasks[u].chat = tasks[t].chat
    /\ tasks[t].pc = "newsession"
    /\ tasks[t].conn = connections[tasks[t].chat]
    /\ tasks[u].sid \in conns[tasks[t].conn].sids
    /\ conns[tasks[t].conn].st = "ready"
    /\ Len(agentLog.news[tasks[t].chat]) = 2

\* /new is taken for chat c: the one-time cwd is recorded and the chat's
\* entry is gone.
NewTaken ==
  \A c \in Chats, text \in Texts, atBot \in BOOLEAN :
    MsgNew(c, text, atBot)
    => /\ nextSessionCwd'[c] = MatchNew(text).dir
       /\ connections'[c] = NoConn
       /\ agentLog' = agentLog

\* /new has completed for chat c in this step: its reply goes out.
NewCompletes(c) == replies' = Say(c, R("new_session"))

\* When /new completes the chat has no entry, no session and no agent.
NothingLeft ==
  \A c \in Chats :
    NewCompletes(c)
    => /\ connections'[c] = NoConn
       /\ \A k \in ConnIds :
            conns'[k].chat = c
            => /\ conns'[k].acc = << >>
               /\ conns'[k].st \in {"new", "stopped"}

\* The chat had a connection and /new has removed it.
Renewed(c) == connections[c] = NoConn /\ \E k \in ConnIds : conns[k].chat = c

\* The next message after /new starts a new agent on a new connection
\* object before anything is sent to an agent.
NextMessageSpawns ==
  \A c \in Chats, text \in Texts, atBot \in BOOLEAN :
    ( /\ Renewed(c)
      /\ \A k \in ConnIds : conns[k].chat = c => conns[k].st \notin {"closing", "terminating"}
      /\ (IsGroup(c) => atBot)
      /\ NonCommand(text)
      /\ HandleMessage(c, text, atBot) )
    => /\ connections'[c] # NoConn
       /\ conns[connections'[c]].st = "unused"
       /\ conns'[connections'[c]].st = "spawning"
       /\ agentLog' = agentLog

\* A session obtained after /new differs from every session the chat had
\* before.
SessionIsNew ==
  \A t \in TaskIds :
    (tasks[t].pc = "newsession" /\ tasks'[t].pc = "prompting")
    => \A k \in ConnIds : conns[k].chat = tasks[t].chat => tasks'[t].sid \notin conns[k].sids

\* C27: /new records the one-time cwd, closes the session, disconnects the
\* chat and replies; when it has completed the chat has no session and no
\* connection, and the chat's next message spawns a new subprocess and gets
\* a session id from a new session/new that differs from the earlier ones.
C27_NewResetsChat ==
  /\ [][NewTaken]_vars
  /\ [][NothingLeft]_vars
  /\ [][NextMessageSpawns]_vars
  /\ [][SessionIsNew]_vars

\* session/new is sent for chat c in this step.
SessionNewSent(c) == Len(agentLog'.news[c]) = Len(agentLog.news[c]) + 1

\* /new records its directory, or none, for its own chat only.
NewSetsCwd ==
  \A c \in Chats, text \in Texts, atBot \in BOOLEAN :
    MsgNew(c, text, atBot)
    => /\ nextSessionCwd'[c] = MatchNew(text).dir
       /\ \A b \in Chats \ {c} : nextSessionCwd'[b] = nextSessionCwd[b]

\* session/new carries the directory recorded for its chat, or the empty
\* cwd when none is recorded, and the record is dropped; it is the only
\* session/new of the step and touches no other chat's record.
SessionNewTakesCwd ==
  \A c \in Chats :
    SessionNewSent(c)
    => /\ agentLog'.news[c] =
            Append(agentLog.news[c],
                   IF nextSessionCwd[c] = NoCwd THEN "" ELSE nextSessionCwd[c])
       /\ nextSessionCwd'[c] = NoCwd
       /\ \A b \in Chats \ {c} : /\ nextSessionCwd'[b] = nextSessionCwd[b]
                                 /\ agentLog'.news[b] = agentLog.news[b]

\* Nothing but /new and session/new of a chat changes the chat's record or
\* its log of session/new calls.
CwdOtherwiseKept ==
  \A c \in Chats :
    ( /\ ~SessionNewSent(c)
      /\ ~\E text \in Texts, atBot \in BOOLEAN : MsgNew(c, text, atBot) )
    => /\ nextSessionCwd'[c] = nextSessionCwd[c]
       /\ agentLog'.news[c] = agentLog.news[c]

\* C28: the directory of /new <dir> is the cwd of exactly the next
\* session/new of that chat and is then forgotten, later ones send the empty
\* cwd, /new without directory makes the next one send the empty cwd, and
\* one chat's directory is never used for another chat.
C28_OneTimeCwd ==
  /\ [][NewSetsCwd]_vars
  /\ [][SessionNewTakesCwd]_vars
  /\ [][CwdOtherwiseKept]_vars

\* A chat's first session/new carried the directory of /new <dir> and its
\* second one the empty cwd.
C28_Witness ==
  \E c \in Chats :
    /\ agentLog.news[c] = << "dir", "" >>
    /\ nextSessionCwd[c] = NoCwd

\* The text is /send, whitespace and a non-empty body.
SendWithBody(text) ==
  /\ Len(text) >= 3 /\ text[1] = "/send" /\ IsSpace(text[2])
  /\ LStripSpace(Tail(text)) # << >>

\* The replies that only a command of the bridge gives.
CommandReplies ==
  { R("help"), R("usage"), R("echo"), R("stopped"), R("no_active"), R("new_session"),
    R("bg_disabled") }

\* /send with a body becomes the chat's prompt (or is busy-rejected when a
\* prompt is in flight) and has no command effect.
SendForwards ==
  \A c \in Chats, text \in Texts, atBot \in BOOLEAN :
    ( /\ SendWithBody(text)
      /\ (IsGroup(c) => atBot)
      /\ HandleMessage(c, text, atBot) )
    => /\ replies'.msg \notin CommandReplies
       /\ UNCHANGED << nextSessionCwd, cancelTasks, closed, pending, perms >>
       /\ \A b \in Chats : connections[b] # NoConn => connections'[b] = connections[b]
       /\ IF activeTasks[c] # NoTask
          THEN replies' = Say(c, R("busy")) /\ tasks' = tasks /\ agentLog' = agentLog
          ELSE /\ activeTasks'[c] # NoTask
               /\ tasks'[activeTasks'[c]].text = LStripSpace(Tail(text))

\* A bare /send gets the usage hint and nothing else happens.
BareSendHints ==
  \A c \in Chats, atBot \in BOOLEAN :
    ( (IsGroup(c) => atBot) /\ HandleMessage(c, << "/send" >>, atBot) )
    => /\ replies' = Say(c, R("usage"))
       /\ UNCHANGED << agentLog, tasks, activeTasks, connections, conns,
                       nextSessionCwd, cancelTasks, closed >>

C30_UnaddressedDropped ==
  [][\A text \in Texts :
       HandleMessage("group:222", text, FALSE)
       => /\ replies' = Silent
          /\ UNCHANGED << agentLog, activeTasks, tasks, connections, conns, lockHolder,
                          nextSessionCwd, cancelTasks, always, pending, perms,
                          nextSid, closed >>]_vars

\* The group chat's prompt is starting and its other message so far, which
\* did not mention the bot, left no trace.
C30_Witness ==
  /\ counts.msgs = 2
  /\ \E t \in TaskIds :
       /\ tasks[t].pc = "spawning" /\ tasks[t].chat = "group:222"
       /\ ~tasks[t].cancelReq
       /\ \A u \in TaskIds \ {t} : tasks[u].pc = "unused"
       /\ connections["group:222"] = tasks[t].conn
  /\ connections["private:111"] = NoConn
  /\ nextSessionCwd = [c \in Chats |-> NoCwd]
  /\ replies = Silent

\* The replies that carry a prompt's result or report its failure.
OutcomeKinds == {"content", "empty", "agent_error", "agent_error_partial"}

\* /stop for a chat with a registered task answers with its confirmation.
StopConfirmed ==
  \A c \in Chats, text \in Texts, atBot \in BOOLEAN :
    (activeTasks[c] # NoTask /\ MsgStop(c, text, atBot))
    => replies' = Say(c, R("stopped"))

\* The handler of a task cancelled by /stop moves only once more: it ends
\* cancelled and sends nothing.
CancelledEndsSilently ==
  \A t \in TaskIds :
    (Live(t) /\ tasks[t].cancelReq /\ tasks'[t].pc # tasks[t].pc)
    => tasks'[t].pc = "cancelled" /\ replies' = Silent

\* While a task is cancelled, and after it has ended cancelled, no result
\* and no error message goes to its chat on its account.
NothingReported ==
  \A t \in TaskIds :
    /\ (Live(t) /\ tasks[t].cancelReq /\ replies'.msg.kind \in OutcomeKinds)
       => replies'.chat # tasks[t].chat
    /\ tasks[t].pc = "cancelled" => tasks'[t] = tasks[t]

\* C31: after /stop the cancelled prompt delivers no result and no error
\* message; /stop answers with its confirmation and the handler task ends
\* in the cancelled state.
C31_CancellationSilent ==
  /\ [][StopConfirmed]_vars
  /\ [][CancelledEndsSilently]_vars
  /\ [][NothingReported]_vars

\* A prompt that had streamed content was stopped and its task has ended
\* cancelled.
C31_Witness ==
  \E t \in TaskIds :
    /\ tasks[t].pc = "cancelled" /\ tasks[t].stopped
    /\ agentLog.prompts[tasks[t].chat] >= 1
    /\ activeTasks[tasks[t].chat] = NoTask

ThinkingKinds == {"thinking", "thinking_long"}

\* A thinking notification of task t goes out in this step.
Notifies(t) ==
  /\ tasks'[t].fired # tasks[t].fired /\ tasks'[t].fired > 0
  /\ replies'.chat = tasks[t].chat /\ replies'.msg.kind \in ThinkingKinds

\* The reply of the prompt is out, or the handler has finished.
ReplyOut(t) == tasks[t].pc \in {"reply", "done", "cancelled"}

\* The error message of the prompt is out.
ErrorOut(t) == tasks[t].pc = "errreply"

\* /stop has cancelled the prompt.
StopOut(t) == tasks[t].cancelReq

NoLateAfterReply == \A t \in TaskIds : Notifies(t) => ~ReplyOut(t)

NoLateAfterError == \A t \in TaskIds : Notifies(t) => ~ErrorOut(t)

NoLateAfterStop == \A t \in TaskIds : Notifies(t) => ~StopOut(t)

\* C32: once a prompt has ended (reply sent, error message sent, or
\* cancelled by /stop) none of its thinking notifications is sent.
C32_NoLateThinking ==
  /\ [][NoLateAfterReply]_vars
  /\ [][NoLateAfterError]_vars
  /\ [][NoLateAfterStop]_vars

\* This step is /stop taking effect on the registered task t of chat c.
StopStep(c, t) ==
  activeTasks[c] = t /\ t # NoTask /\ ~tasks[t].cancelReq /\ tasks'[t].cancelReq

\* /stop cancels the pending future and the task and only schedules the
\* notification: nothing is sent to the agent in that step.
StopCancelsFutureAndTask ==
  \A c \in Chats, t \in TaskIds :
    StopStep(c, t)
    => /\ pending[c] # NoPerm => /\ perms'[pending[c]].fut.st # "pending"
                                 /\ pending'[c] = NoPerm
       /\ cancelTasks'[c] = cancelTasks[c] + 1
       /\ agentLog'.cancels = agentLog.cancels

\* handle() waiting on a cancelled future returns cancelled.
CancelledFutureDenies ==
  \A r \in PermIds :
    (perms[r].pc = "waiting" /\ perms[r].fut.st = "cancelled" /\ perms'[r].pc = "done")
    => perms'[r].outcome = Cancelled

\* The cancel notification coroutine of a chat runs, and session/cancel is
\* sent, only when no task of the chat is still waiting for its cancellation.
NotifyAfterTask ==
  /\ \A c \in Chats :
       cancelTasks'[c] < cancelTasks[c]
       => \A t \in TaskIds : ~(Live(t) /\ tasks[t].cancelReq /\ tasks[t].chat = c)
  /\ agentLog'.cancels # agentLog.cancels
       => \E c \in Chats :
            /\ cancelTasks'[c] < cancelTasks[c]
            /\ \A t \in TaskIds : ~(Live(t) /\ tasks[t].cancelReq /\ tasks[t].chat = c)

Running(k) == conns[k].st \in {"handshake", "ready"}

\* k is the connection of some entry of the connections map.
Mapped(k) == \E c \in Chats : connections[c] = k

\* C34: every live subprocess that is not being stopped belongs to an entry
\* of the connections map.
C34_NoOrphan == \A k \in ConnIds : Running(k) => Mapped(k)

\* handle() of request r waits on a future nobody has completed.
Waiting(r) == perms[r].pc = "waiting" /\ perms[r].fut.st = "pending"

\* handle() of request r leaves its wait in this step.
HandleEnds(r) ==
  perms[r].pc = "waiting" /\ perms'[r].pc \in {"timeoutmsg", "done"}

\* The end of one handle() leaves the record of another waiting call alone.
EndsOwnOnly ==
  \A r \in PermIds, q \in PermIds :
    (HandleEnds(r) /\ q # r /\ Waiting(q) /\ pending[perms[q].chat] = q)
    => pending'[perms[q].chat] = q

\* A waiting call owns the record of its chat, so that a reply and /stop
\* can reach its future.
WaitingReachable == \A r \in PermIds : Waiting(r) => pending[perms[r].chat] = r

\* C35: with two request_permission calls of one chat waiting, the end of
\* one handle() removes only its own record, and each call stays reachable
\* by a user reply and by /stop.
C35_ConcurrentRequests == [][EndsOwnOnly]_vars /\ []WaitingReachable

\* The cancellation of task t arrives while ensure_connection is spawning
\* the subprocess or waiting for the initialize response.
CancelledWhileConnecting(t) ==
  /\ tasks[t].pc \in {"spawning", "handshake"} /\ tasks[t].cancelReq
  /\ tasks'[t].pc = "cancelled"

\* The half-started connection does not count as running, and the lock is
\* free again.
HalfStartedDropped ==
  \A t \in TaskIds :
    CancelledWhileConnecting(t)
    => /\ ~IsRunning(conns'[tasks[t].conn].st)
       /\ lockHolder'[tasks[t].chat] = NoTask

\* session/new or session/prompt goes to the agent of chat c in this step.
SessionTraffic(c) ==
  agentLog'.news[c] # agentLog.news[c] \/ agentLog'.prompts[c] # agentLog.prompts[c]

\* Session traffic of task t uses a connection whose handshake is over.
TrafficAfterHandshake ==
  \A t \in TaskIds :
    (tasks'[t].pc \in {"newsession", "prompting"} /\ tasks'[t].pc # tasks[t].pc
     /\ SessionTraffic(tasks'[t].chat))
    => conns'[tasks'[t].conn].st # "handshake"

\* C36: after /stop during spawn or handshake the half-started connection
\* is not treated as running, the per-chat lock is free, and session/new and
\* session/prompt go only to a connection whose initialize has completed.
C36_StopWhileConnecting ==
  [][HalfStartedDropped]_vars /\ [][TrafficAfterHandshake]_vars

\* /stop of chat c is handled in this step.
StopHandled(c) ==
  \E text \in Texts, atBot \in BOOLEAN : MsgStop(c, text, atBot)

\* C37: whenever a permission request of the chat is pending, /stop reaches
\* cancel_pending and clears it: no record is left after the /stop, so a
\* request cannot stay pending once the user has sent /stop.
C37_StopClearsPending ==
  [][\A c \in Chats : (HasPending(c) /\ StopHandled(c)) => ~HasPending(c)']_vars

\* C38: try_resolve returns True only if the option it selected is the
\* result the request's future holds, the one handle() returns.
C38_AcceptedIsOutcome ==
  lastTry.ret
  => perms[lastTry.perm].fut = [st |-> "result", idx |-> lastTry.idx]

\* The optionIds of an option list.
Offered(opts) == {opts[i].optionId : i \in DOMAIN opts}

\* handle() answers from the always-cache with an option of the request.
CachedAnswerOffered ==
  \A r \in PermIds, t \in TaskIds, kind \in ToolKinds, opts \in OptLists :
    (perms[r].pc = "unused" /\ RequestPermission(t, kind, opts)
     /\ perms'[r].pc = "done" /\ perms'[r].outcome.kind = "selected")
    => perms'[r].outcome.optionId \in Offered(opts)

\* handle() answers from the user's reply with an option of the request.
RepliedAnswerOffered ==
  \A r \in PermIds :
    (perms[r].pc = "waiting" /\ perms'[r].pc = "done"
     /\ perms'[r].outcome.kind = "selected")
    => perms'[r].outcome.optionId \in Offered(perms[r].opts)

\* C39: the optionId handle() returns as selected is the optionId of an
\* option offered in that same request, whether it comes from the user's
\* reply or from the always-cache.
C39_SelectedWasOffered ==
  [][CachedAnswerOffered]_vars /\ [][RepliedAnswerOffered]_vars

\* /new has removed the entry of the connection that the live task t uses.
Interrupted(t) == Live(t) /\ connections[tasks[t].chat] # tasks[t].conn

\* The interrupted task ends and stops being the chat's registered task.
InterruptedEnds ==
  \A t \in TaskIds :
    Interrupted(t) ~> (~Live(t) /\ \A c \in Chats : activeTasks[c] # t)

\* When the interrupted task ends, the chat has no entry and none of its
\* connections has the active-prompt flag set.
EndsClean ==
  \A t \in TaskIds :
    (Interrupted(t) /\ ~Live(t)')
    => /\ connections'[tasks[t].chat] = NoConn
       /\ \A k \in ConnIds : conns'[k].chat = tasks[t].chat => ~conns'[k].active_prompt

\* A message of a chat without an entry starts a subprocess of its own and
\* sends session/new only after its own initialize has returned.
StartsFresh ==
  /\ \A c \in Chats, text \in Texts, atBot \in BOOLEAN :
       (connections[c] = NoConn /\ MsgPrompt(c, text, atBot))
       => /\ conns[connections'[c]].st = "unused"
          /\ conns'[connections'[c]].st = "spawning"
          /\ tasks'[activeTasks'[c]].pc = "spawning"
          /\ agentLog' = agentLog
  /\ \A t \in TaskIds :
       (tasks[t].pc = "handshake" /\ SessionTraffic(tasks[t].chat)
        /\ tasks'[t].pc \in {"newsession", "prompting"})
       => conns'[tasks'[t].conn].st = "ready"

\* C40: a prompt interrupted by /new ends and frees the chat, no
\* active-prompt flag of the chat stays set, and the next message starts and
\* initializes a connection of its own.
C40_NewDoesNotWedge ==
  /\ InterruptedEnds
  /\ [][EndsClean]_vars
  /\ [][StartsFresh]_vars

\* /new was taken during a prompt, the prompt has ended with the error
\* reply, and the next message is initializing a new connection.
C40_Witness ==
  \E t \in TaskIds, u \in TaskIds :
    /\ t # u /\ tasks[t].chat = tasks[u].chat
    /\ tasks[t].pc = "done" /\ tasks[u].pc = "newsession"
    /\ \E k \in ConnIds :
         /\ conns[k].chat = tasks[t].chat /\ conns[k].st = "stopped" /\ conns[k].sids # {}
         /\ connections[tasks[t].chat] # k
    /\ conns[tasks[u].conn].st = "ready"

====
